---- MODULE Spec2Model ----
(***************************************************************************)
(* Lock-free single-producer/single-consumer circular buffer               *)
(* (diffstorm/cb, src/src/cb.c, version 1.2).                              *)
(*                                                                         *)
(* Every public operation is modelled at the granularity of its accesses   *)
(* to the shared structure: one step per atomic index load, per slot       *)
(* access and per atomic index store; local computation is folded into     *)
(* the step that follows the access it depends on.  Steps of different     *)
(* threads interleave (sequentially consistent interleaving semantics).    *)
(*                                                                         *)
(* The main specifications are                                             *)
(*   Spec       one producer thread and one consumer thread running        *)
(*              concurrently on the same buffer;                           *)
(*   SpecSeq    one caller issuing any operation, one call after another;  *)
(*   SpecOps    one side calling any one of its non-timed operations       *)
(*              concurrently with the other side's plain operation;        *)
(*   SpecTimed  one side calling a timed operation concurrently with the   *)
(*              other side's plain operation;                              *)
(* further ones cover size 0, unbound storage, corrupted indices,          *)
(* re-initialisation, the bool forms, several producers and consumers,     *)
(* and the build with CB_ENABLE_STATISTICS.                                *)
(***************************************************************************)
EXTENDS Integers, Sequences, FiniteSets, TLC

\* ------------------------------------------------------------------ bounds
MaxSize == 3
MaxItems == 4
MaxCount == 2
MaxTimeout == 2

\* --------------------------------------------------------------- constants
CB_SUCCESS == "CB_SUCCESS"
CB_ERROR_NULL_POINTER == "CB_ERROR_NULL_POINTER"
CB_ERROR_INVALID_SIZE == "CB_ERROR_INVALID_SIZE"
CB_ERROR_BUFFER_FULL == "CB_ERROR_BUFFER_FULL"
CB_ERROR_BUFFER_EMPTY == "CB_ERROR_BUFFER_EMPTY"
CB_ERROR_INVALID_OFFSET == "CB_ERROR_INVALID_OFFSET"
CB_ERROR_INVALID_COUNT == "CB_ERROR_INVALID_COUNT"
CB_ERROR_TIMEOUT == "CB_ERROR_TIMEOUT"

\* Timeout value for non-blocking operations
CB_NO_WAIT == 0

\* Content of a storage cell or of an output variable that was never written.
Uninit == 0

\* The two execution contexts of the design.
Threads == {"P", "C"}

\* Buffer lengths handed to cb_init_ex.
Capacities == 0..MaxSize

VARIABLES
    size,       \* cb.size
    buf,        \* cb.buf[0 .. size-1]
    in,         \* cb.in
    out,        \* cb.out
    overwrite,  \* cb.overwrite
    pc,         \* per thread: position inside the running operation
    op,         \* per thread: the public operation last called
    loc,        \* per thread: locals of cb_insert_ex / cb_remove_ex / cb_peek_ex
    bulk,       \* per thread: locals of cb_insert_bulk_ex / cb_remove_bulk_ex
    res,        \* per thread: result code of the last completed call
    itemOut,    \* per thread: the caller's output variable
    pre,        \* per thread: buffer state observed by the caller at call time
    inserted,   \* values of the cb_insert_ex calls that returned CB_SUCCESS
    removed,    \* values returned by the cb_remove_ex calls that returned CB_SUCCESS
    everOw,     \* overwrite mode has been enabled at some point
    last_error, \* cb.last_error (code, function, parameter)
    timed,      \* per thread: arguments and locals of the cb_*_timeout operations
    query,      \* per thread: locals and result of cb_freeSpace / cb_dataSize /
                \* cb_sanity_check
    statistics,   \* the build has CB_ENABLE_STATISTICS
    cb_instances, \* cb_instances[0 .. cb_instance_count - 1]
    cb_stats,     \* cb_stats[0 .. cb_instance_count - 1]
    tally         \* what happened to this buffer since its cb_reset_stats

cbvars == <<size, buf, in, out, overwrite>>
statvars == <<statistics, cb_instances, cb_stats, tally>>
vars == <<size, buf, in, out, overwrite, pc, op, loc, bulk, res, itemOut, pre,
          inserted, removed, everOw, last_error, timed, query,
          statistics, cb_instances, cb_stats, tally>>

\* ------------------------------------------------------------ pure helpers
\* Fault variant: the successor index does not wrap at the capacity.
NextIndexNoWrap(i) == i + 1

\* (current + 1) % cb_ptr->size
NextIndex(i) == (i + 1) % size

\* Fault variants of the full test: the test is missing; the test misses the
\* wrap of next_in to 0; the test fires one element early.
IsFullDropped(next_in, current_out) == FALSE

IsFullNoWrap(next_in, current_out) == next_in = current_out /\ next_in # 0

IsFullEarly(next_in, current_out) == (next_in + 1) % size = current_out

\* next_in == current_out
IsFull(next_in, current_out) == next_in = current_out

\* Fault variant of the empty test: an ordered comparison of the indices.
IsEmptyOrdered(current_out, current_in) == current_out >= current_in

\* current_out == current_in
IsEmpty(current_out, current_in) == current_out = current_in

\* cb_dataSize on a quiescent buffer
DataSize(i, o) ==
    IF size = 0 THEN 0
    ELSE IF i >= o THEN i - o ELSE size - o + i

\* cb_freeSpace on a quiescent buffer
FreeSpace(i, o) ==
    IF size = 0 THEN 0
    ELSE IF i >= o THEN (size - 1) - (i - o) ELSE o - i - 1

\* cb_ptr->buf points to storage of size slots. A null or unbound pointer is
\* a buf without slots; with size 0 no operation dereferences buf.
StorageBound == DOMAIN buf = 0..(size - 1)

\* stat_in, data_size, is_insert and is_success are the locals of the
\* statistics hooks: cb_dataSize's in, its result, and the arguments of
\* cb_update_stats.
NoLoc == [item |-> 0, current_in |-> 0, next_in |-> 0, current_out |-> 0,
          offset |-> 0, pos |-> 0,
          stat_in |-> 0, data_size |-> 0, is_insert |-> FALSE, is_success |-> FALSE]

NoBulk == [items |-> <<>>, count |-> 0, n |-> 0, overwrite_enabled |-> FALSE]

\* attempts lists the results of the calls of cb_insert_ex / cb_remove_ex made
\* by the running or the last cb_*_timeout operation.
NoTimed == [timeout_ms |-> 0, elapsed_ms |-> 0, item |-> 0, itemOutNull |-> FALSE,
            attempts |-> <<>>]

\* before counts the values the caller's side had moved when the query
\* returned: inserted ones for cb_freeSpace, removed ones otherwise.
NoQuery == [in |-> 0, out |-> 0, value |-> 0, valid |-> FALSE, before |-> 0]

NoError == [code |-> CB_SUCCESS, function |-> "", parameter |-> ""]

\* memset(&cb_stats[i], 0, sizeof(cb_internal_stats_t))
NoStats == [peak_usage |-> 0, total_inserts |-> 0, total_removes |-> 0,
            overflow_count |-> 0, underflow_count |-> 0]

\* The build without CB_ENABLE_STATISTICS has no registry.
StatisticsOff ==
    /\ statistics = FALSE
    /\ cb_instances = <<>>
    /\ cb_stats = <<>>
    /\ tally = NoStats

\* What a caller can observe of the buffer right before it calls.
Snapshot(t, item) ==
    [in |-> in, out |-> out, overwrite |-> overwrite, buf |-> buf,
     itemOut |-> itemOut[t], item |-> item,
     done |-> (Len(inserted) = MaxItems /\ pc["P"] = "idle")]

\* ----------------------------------------------------------- cb_init_ex
Init ==
    /\ size \in Capacities
    /\ buf = [i \in 0..(size - 1) |-> Uninit]
    /\ in = 0
    /\ out = 0
    /\ overwrite = FALSE
    /\ pc = [t \in Threads |-> "idle"]
    /\ op = [t \in Threads |-> "none"]
    /\ loc = [t \in Threads |-> NoLoc]
    /\ bulk = [t \in Threads |-> NoBulk]
    /\ res = [t \in Threads |-> CB_SUCCESS]
    /\ itemOut = [t \in Threads |-> Uninit]
    /\ inserted = <<>>
    /\ removed = <<>>
    /\ everOw = FALSE
    /\ last_error = IF size = 0
                    THEN [code |-> CB_ERROR_INVALID_SIZE, function |-> "cb_init_ex",
                          parameter |-> "bufferLength"]
                    ELSE NoError
    /\ timed = [t \in Threads |-> NoTimed]
    /\ query = [t \in Threads |-> NoQuery]
    /\ StatisticsOff
    /\ pre = [t \in Threads |-> Snapshot(t, 0)]

\* ------------------------------------------------------------- statistics
\* Global statistics storage - limited to 8 buffers for simplicity
CB_MAX_BUFFERS == 8

\* The buffer of this model and the other buffers of the program, as the
\* addresses kept in cb_instances.
ThisCb == 0

OtherCbs == 1..CB_MAX_BUFFERS

\* The index of cb_ptr in cb_instances, -1 when it is not registered.
FindBuffer(cb_ptr) ==
    LET found == {i \in 1..Len(cb_instances) : cb_instances[i] = cb_ptr}
    IN  IF found = {} THEN -1
        ELSE (CHOOSE i \in found : \A j \in found : i <= j) - 1

\* cb_find_or_register_buffer(cb_ptr): the index it returns (-1 when the
\* table has no place left) and the registry it leaves.
FindOrRegister(cb_ptr) ==
    IF FindBuffer(cb_ptr) >= 0
    THEN [idx |-> FindBuffer(cb_ptr), instances |-> cb_instances,
          stats |-> cb_stats]
    ELSE IF Len(cb_instances) < CB_MAX_BUFFERS
    THEN [idx |-> Len(cb_instances),
          instances |-> Append(cb_instances, cb_ptr),
          stats |-> Append(cb_stats, NoStats)]
    ELSE [idx |-> -1, instances |-> cb_instances, stats |-> cb_stats]

\* Fault variant: a refused insert is counted as an insert.
BumpCountsRefused(s, data_size, is_insert, is_success) ==
    IF is_insert
    THEN [s EXCEPT !.total_inserts = @ + 1,
                   !.peak_usage = IF data_size > @ THEN data_size ELSE @]
    ELSE IF is_success
         THEN [s EXCEPT !.total_removes = @ + 1]
         ELSE [s EXCEPT !.underflow_count = @ + 1]

\* The counters of one buffer after cb_update_stats.
Bump(s, data_size, is_insert, is_success) ==
    IF is_insert
    THEN IF is_success
         THEN [s EXCEPT !.total_inserts = @ + 1,
                        !.peak_usage = IF data_size > @ THEN data_size ELSE @]
         ELSE [s EXCEPT !.overflow_count = @ + 1]
    ELSE IF is_success
         THEN [s EXCEPT !.total_removes = @ + 1]
         ELSE [s EXCEPT !.underflow_count = @ + 1]

\* cb_update_stats(cb_ptr, data_size, is_insert, is_success)
UpdateStats(cb_ptr, data_size, is_insert, is_success) ==
    LET r == FindOrRegister(cb_ptr)
    IN  /\ cb_instances' = r.instances
        /\ cb_stats' = IF r.idx < 0 THEN r.stats
                       ELSE [r.stats EXCEPT ![r.idx + 1] =
                                Bump(@, data_size, is_insert, is_success)]

\* cb_reset_stats(cb_ptr)
ResetStats(cb_ptr) ==
    LET r == FindOrRegister(cb_ptr)
    IN  /\ cb_instances' = r.instances
        /\ cb_stats' = IF r.idx < 0 THEN r.stats
                       ELSE [r.stats EXCEPT ![r.idx + 1] = NoStats]

\* cb_get_stats(cb_ptr)
GetStats(cb_ptr) ==
    IF FindBuffer(cb_ptr) < 0 THEN NoStats
    ELSE cb_stats[FindBuffer(cb_ptr) + 1]

\* ---------------------------------------------------------- control flow
\* Thread t moves on inside its operation.
GoTo(t, label, locals) ==
    /\ pc' = [pc EXCEPT ![t] = label]
    /\ loc' = [loc EXCEPT ![t] = locals]
    /\ UNCHANGED <<bulk, res, timed>>

\* A public operation of thread t returns result r to its caller.
Return(t, r) ==
    /\ pc' = [pc EXCEPT ![t] = "idle"]
    /\ loc' = [loc EXCEPT ![t] = NoLoc]
    /\ res' = [res EXCEPT ![t] = r]

\* Thread t calls public operation o.
Call(t, o, label, locals, item) ==
    /\ pc[t] = "idle"
    /\ pc' = [pc EXCEPT ![t] = label]
    /\ op' = [op EXCEPT ![t] = o]
    /\ loc' = [loc EXCEPT ![t] = locals]
    /\ pre' = [pre EXCEPT ![t] = Snapshot(t, item)]

\* Thread t reaches a statistics hook of cb_insert_ex or cb_remove_ex:
\* cb_dataSize(cb_ptr) first, except where the code passes 0.
StatHook(t, label, is_insert, is_success) ==
    GoTo(t, label, [loc[t] EXCEPT !.is_insert = is_insert,
                                  !.is_success = is_success])

\* ------------------------------------------ cb_insert, cb_remove, cb_peek
BoolOps == {"cb_insert", "cb_remove", "cb_peek"}

\* Fault variant: the result code itself is converted to bool.
PlainResultNonZero(t, r) ==
    IF op[t] \in BoolOps
    THEN (IF r # CB_SUCCESS THEN "true" ELSE "false")
    ELSE r

\* What the caller of thread t's operation gets for result code r of
\* cb_insert_ex, cb_remove_ex or cb_peek_ex: the code, or, from the bool
\* functions, cb_*_ex(...) == CB_SUCCESS.
PlainResult(t, r) ==
    IF op[t] \in BoolOps
    THEN (IF r = CB_SUCCESS THEN "true" ELSE "false")
    ELSE r

\* ------------------------------------- cb_insert_timeout .. cb_remove_timeout_ex
TimedOps == {"cb_insert_timeout", "cb_insert_timeout_ex",
             "cb_remove_timeout", "cb_remove_timeout_ex"}

\* What the running timed operation of thread t returns for result code r:
\* the code itself (cb_*_timeout_ex) or a bool (cb_*_timeout).
TimedResult(t, r) ==
    IF op[t] \in {"cb_insert_timeout_ex", "cb_remove_timeout_ex"} THEN r
    ELSE IF r = CB_SUCCESS THEN "true" ELSE "false"

\* Fault variant: the refusal of the last attempt is returned when the budget
\* is used up.
TimedAfterNoTimeout(t, r, blocked) ==
    /\ timed' = [timed EXCEPT ![t] = [@ EXCEPT !.attempts = Append(@, r)]]
    /\ IF /\ r = blocked /\ timed[t].timeout_ms # CB_NO_WAIT
          /\ timed[t].elapsed_ms < timed[t].timeout_ms
       THEN /\ pc' = [pc EXCEPT ![t] = "timed_sleep"]
            /\ loc' = [loc EXCEPT ![t] = NoLoc]
            /\ res' = res
       ELSE Return(t, TimedResult(t, r))

\* Fault variant: the loop sleeps once more than the budget allows.
TimedAfterOneMore(t, r, blocked) ==
    /\ timed' = [timed EXCEPT ![t] = [@ EXCEPT !.attempts = Append(@, r)]]
    /\ IF r = blocked /\ timed[t].timeout_ms # CB_NO_WAIT
       THEN /\ pc' = [pc EXCEPT ![t] =
                         IF timed[t].elapsed_ms <= timed[t].timeout_ms
                         THEN "timed_sleep" ELSE "timed_expire"]
            /\ loc' = [loc EXCEPT ![t] = NoLoc]
            /\ res' = res
       ELSE Return(t, TimedResult(t, r))

\* Fault variant: the loop goes on while the budget lasts, whatever the
\* attempt returned.
TimedAfterRetriesAll(t, r, blocked) ==
    /\ timed' = [timed EXCEPT ![t] = [@ EXCEPT !.attempts = Append(@, r)]]
    /\ IF /\ timed[t].timeout_ms # CB_NO_WAIT
          /\ timed[t].elapsed_ms < timed[t].timeout_ms
       THEN /\ pc' = [pc EXCEPT ![t] = "timed_sleep"]
            /\ loc' = [loc EXCEPT ![t] = NoLoc]
            /\ res' = res
       ELSE Return(t, TimedResult(t, r))

\* cb_insert_ex / cb_remove_ex returned r to the timed operation of thread t
\* (blocked is CB_ERROR_BUFFER_FULL resp. CB_ERROR_BUFFER_EMPTY): the tests on
\* result and timeout_ms after the first attempt and in the loop, and the
\* loop test elapsed_ms < timeout_ms.
TimedAfter(t, r, blocked) ==
    /\ timed' = [timed EXCEPT ![t] = [@ EXCEPT !.attempts = Append(@, r)]]
    /\ IF r = blocked /\ timed[t].timeout_ms # CB_NO_WAIT
       THEN /\ pc' = [pc EXCEPT ![t] =
                         IF timed[t].elapsed_ms < timed[t].timeout_ms
                         THEN "timed_sleep" ELSE "timed_expire"]
            /\ loc' = [loc EXCEPT ![t] = NoLoc]
            /\ res' = res
       ELSE Return(t, TimedResult(t, r))

\* cb_sleep_ms(sleep_interval_ms); elapsed_ms += sleep_interval_ms; the next
\* call of cb_insert_ex / cb_remove_ex
TimedSleep(t) ==
    /\ pc[t] = "timed_sleep"
    /\ timed' = [timed EXCEPT ![t] = [@ EXCEPT !.elapsed_ms = @ + 1]]
    /\ pc' = [pc EXCEPT ![t] =
                  IF op[t] \in {"cb_insert_timeout", "cb_insert_timeout_ex"}
                  THEN "ins_load_in" ELSE "rem_load_out"]
    /\ loc' = [loc EXCEPT ![t] = [NoLoc EXCEPT !.item = timed[t].item]]
    /\ UNCHANGED <<cbvars, op, bulk, res, itemOut, pre, inserted, removed, everOw,
                   last_error, query, statvars>>

\* CB_SET_ERROR(cb_ptr, CB_ERROR_TIMEOUT, __func__, "timeout_ms", __LINE__);
\* return false resp. CB_ERROR_TIMEOUT
TimedExpire(t) ==
    /\ pc[t] = "timed_expire"
    /\ last_error' = [code |-> CB_ERROR_TIMEOUT, function |-> op[t],
                      parameter |-> "timeout_ms"]
    /\ Return(t, TimedResult(t, CB_ERROR_TIMEOUT))
    /\ UNCHANGED <<cbvars, op, bulk, itemOut, pre, inserted, removed, everOw,
                   timed, query, statvars>>

\* cb_remove_timeout_ex: the itemOut check before the first attempt
RemTimeoutExEntry(t) ==
    /\ pc[t] = "rte_entry"
    /\ IF timed[t].itemOutNull
       THEN /\ last_error' = [code |-> CB_ERROR_NULL_POINTER, function |-> op[t],
                              parameter |-> "itemOut"]
            /\ Return(t, CB_ERROR_NULL_POINTER)
       ELSE /\ pc' = [pc EXCEPT ![t] = "rem_load_out"]
            /\ UNCHANGED <<loc, res, last_error>>
    /\ UNCHANGED <<cbvars, op, bulk, itemOut, pre, inserted, removed, everOw,
                   timed, query, statvars>>

\* ---------------------------------------------------------- cb_insert_ex
\* Fault variant: the element that cb_insert_ex refused is counted as inserted.
BulkInsAfterCountsRefused(t, r) ==
    LET b == bulk[t]
        n1 == b.n + 1
    IN  IF r = CB_SUCCESS
        THEN /\ bulk' = [bulk EXCEPT ![t] = [b EXCEPT !.n = n1]]
             /\ IF n1 < b.count
                THEN /\ pc' = [pc EXCEPT ![t] = "ins_load_in"]
                     /\ loc' = [loc EXCEPT ![t] =
                                   [NoLoc EXCEPT !.item = b.items[n1 + 1]]]
                     /\ res' = res
                ELSE Return(t, CB_SUCCESS)
        ELSE /\ bulk' = [bulk EXCEPT ![t] = [b EXCEPT !.n = n1]]
             /\ Return(t, CB_SUCCESS)

\* cb_insert_bulk_ex, lines 505-516: the loop body after cb_insert_ex
\* returned r, the loop test and the final return.
BulkInsAfter(t, r) ==
    LET b == bulk[t]
        n1 == b.n + 1
    IN  IF r = CB_SUCCESS
        THEN /\ bulk' = [bulk EXCEPT ![t] = [b EXCEPT !.n = n1]]
             /\ IF n1 < b.count
                THEN /\ pc' = [pc EXCEPT ![t] = "ins_load_in"]
                     /\ loc' = [loc EXCEPT ![t] =
                                   [NoLoc EXCEPT !.item = b.items[n1 + 1]]]
                     /\ res' = res
                ELSE Return(t, CB_SUCCESS)
        ELSE /\ bulk' = bulk
             /\ Return(t, IF b.n > 0 THEN CB_SUCCESS ELSE r)

\* cb_insert_ex returns r to cb_insert_bulk_ex or to the caller.
InsReturn(t, r) ==
    /\ inserted' = IF r = CB_SUCCESS
                   THEN Append(inserted, loc[t].item)
                   ELSE inserted
    /\ IF op[t] = "cb_insert_bulk_ex"
       THEN BulkInsAfter(t, r) /\ timed' = timed
       ELSE IF op[t] \in TimedOps
       THEN TimedAfter(t, r, CB_ERROR_BUFFER_FULL) /\ bulk' = bulk
       ELSE Return(t, PlainResult(t, r)) /\ UNCHANGED <<bulk, timed>>

\* size check, current_in = load(in), next_in = (current_in + 1) % size
InsLoadIn(t) ==
    /\ pc[t] = "ins_load_in"
    /\ IF size = 0
       THEN InsReturn(t, CB_ERROR_INVALID_SIZE)
       ELSE /\ GoTo(t, "ins_load_out",
                    [loc[t] EXCEPT !.current_in = in, !.next_in = NextIndex(in)])
            /\ UNCHANGED inserted
    /\ UNCHANGED <<cbvars, op, itemOut, pre, removed, everOw, last_error,
                   query, statvars>>

\* current_out = load(out); if (next_in == current_out)
InsLoadOut(t) ==
    /\ pc[t] = "ins_load_out"
    /\ GoTo(t, IF IsFull(loc[t].next_in, out) THEN "ins_load_ow" ELSE "ins_write",
            [loc[t] EXCEPT !.current_out = out])
    /\ UNCHANGED <<cbvars, op, itemOut, pre, inserted, removed, everOw,
                   last_error, query, statvars>>

\* Fault variant: the insert waits for the consumer to make room.
InsLoadOwWaits(t) ==
    /\ pc[t] = "ins_load_ow"
    /\ GoTo(t, IF overwrite THEN "ins_evict" ELSE "ins_load_in", loc[t])
    /\ UNCHANGED <<cbvars, op, itemOut, pre, inserted, removed, everOw,
                   last_error, query, statvars>>

\* Fault variant: the full buffer is refused also in overwrite mode.
InsLoadOwRefuses(t) ==
    /\ pc[t] = "ins_load_ow"
    /\ InsReturn(t, CB_ERROR_BUFFER_FULL)
    /\ UNCHANGED <<cbvars, op, itemOut, pre, removed, everOw, last_error,
                   query, statvars>>

\* Fault variant: the element is stored before the full buffer is refused.
InsLoadOwStores(t) ==
    /\ pc[t] = "ins_load_ow"
    /\ IF overwrite
       THEN GoTo(t, "ins_evict", loc[t]) /\ UNCHANGED <<inserted, buf>>
       ELSE /\ buf' = [buf EXCEPT ![loc[t].current_in] = loc[t].item]
            /\ InsReturn(t, CB_ERROR_BUFFER_FULL)
    /\ UNCHANGED <<size, in, out, overwrite, op, itemOut, pre, removed, everOw,
                   last_error, query, statvars>>

\* if (load(overwrite)) ... else return CB_ERROR_BUFFER_FULL
InsLoadOw(t) ==
    /\ pc[t] = "ins_load_ow"
    /\ IF overwrite
       THEN GoTo(t, "ins_evict", loc[t]) /\ UNCHANGED inserted
       ELSE IF statistics
       THEN StatHook(t, "stat_load_in", TRUE, FALSE) /\ UNCHANGED inserted
       ELSE InsReturn(t, CB_ERROR_BUFFER_FULL)
    /\ UNCHANGED <<cbvars, op, itemOut, pre, removed, everOw, last_error,
                   query, statvars>>

\* Fault variant: the oldest element is not given up.
InsEvictSkip(t) ==
    /\ pc[t] = "ins_evict"
    /\ GoTo(t, "ins_write", loc[t])
    /\ UNCHANGED <<cbvars, op, itemOut, pre, inserted, removed, everOw,
                   last_error, query, statvars>>

\* store(out, (current_out + 1) % size); barrier
InsEvict(t) ==
    /\ pc[t] = "ins_evict"
    /\ out' = NextIndex(loc[t].current_out)
    /\ GoTo(t, "ins_write", loc[t])
    /\ UNCHANGED <<size, buf, in, overwrite, op, itemOut, pre, inserted,
                   removed, everOw, last_error, query, statvars>>

\* Fault variant: the element is stored in the slot after the write index.
InsWriteNext(t) ==
    /\ pc[t] = "ins_write"
    /\ buf' = [buf EXCEPT ![loc[t].next_in] = loc[t].item]
    /\ GoTo(t, "ins_publish", loc[t])
    /\ UNCHANGED <<size, in, out, overwrite, op, itemOut, pre, inserted,
                   removed, everOw, last_error, query, statvars>>

\* buf[current_in] = item; barrier
\* Through a null or unbound buf the store is undefined: it faults and the
\* caller never returns, or it lands outside any storage and the call goes on.
InsWrite(t) ==
    /\ pc[t] = "ins_write"
    /\ IF StorageBound
       THEN /\ buf' = [buf EXCEPT ![loc[t].current_in] = loc[t].item]
            /\ GoTo(t, "ins_publish", loc[t])
       ELSE /\ buf' = buf
            /\ \E label \in {"crashed", "ins_publish"} : GoTo(t, label, loc[t])
    /\ UNCHANGED <<size, in, out, overwrite, op, itemOut, pre, inserted,
                   removed, everOw, last_error, query, statvars>>

\* store(in, next_in); return CB_SUCCESS
InsPublish(t) ==
    /\ pc[t] = "ins_publish"
    /\ in' = loc[t].next_in
    /\ IF statistics
       THEN StatHook(t, "stat_load_in", TRUE, TRUE) /\ UNCHANGED inserted
       ELSE InsReturn(t, CB_SUCCESS)
    /\ UNCHANGED <<size, buf, out, overwrite, op, itemOut, pre, removed,
                   everOw, last_error, query, statvars>>

\* ---------------------------------------------------------- cb_remove_ex
\* Fault variant: the loop ends after the first element.
BulkRemAfterOnce(t, r) ==
    LET b == bulk[t]
        n1 == b.n + 1
    IN  IF r = CB_SUCCESS
        THEN /\ bulk' = [bulk EXCEPT ![t] = [b EXCEPT !.n = n1]]
             /\ Return(t, CB_SUCCESS)
        ELSE /\ bulk' = bulk
             /\ Return(t, IF b.n > 0 THEN CB_SUCCESS ELSE r)

\* cb_remove_bulk_ex, lines 554-565.
BulkRemAfter(t, r) ==
    LET b == bulk[t]
        n1 == b.n + 1
    IN  IF r = CB_SUCCESS
        THEN /\ bulk' = [bulk EXCEPT ![t] = [b EXCEPT !.n = n1]]
             /\ IF n1 < b.count
                THEN /\ pc' = [pc EXCEPT ![t] = "rem_load_out"]
                     /\ loc' = [loc EXCEPT ![t] = NoLoc]
                     /\ res' = res
                ELSE Return(t, CB_SUCCESS)
        ELSE /\ bulk' = bulk
             /\ Return(t, IF b.n > 0 THEN CB_SUCCESS ELSE r)

\* cb_remove_ex returns r to cb_remove_bulk_ex or to the caller.
RemReturn(t, r) ==
    /\ removed' = IF r = CB_SUCCESS
                  THEN Append(removed, loc[t].item)
                  ELSE removed
    /\ IF op[t] = "cb_remove_bulk_ex"
       THEN BulkRemAfter(t, r) /\ timed' = timed
       ELSE IF op[t] \in TimedOps
       THEN TimedAfter(t, r, CB_ERROR_BUFFER_EMPTY) /\ bulk' = bulk
       ELSE Return(t, PlainResult(t, r)) /\ UNCHANGED <<bulk, timed>>

\* itemOut check, size check, current_out = load(out)
RemLoadOut(t) ==
    /\ pc[t] = "rem_load_out"
    /\ IF op[t] \in TimedOps /\ timed[t].itemOutNull
       THEN RemReturn(t, CB_ERROR_NULL_POINTER)
       ELSE IF size = 0
       THEN RemReturn(t, CB_ERROR_INVALID_SIZE)
       ELSE /\ GoTo(t, "rem_load_in", [loc[t] EXCEPT !.current_out = out])
            /\ UNCHANGED removed
    /\ UNCHANGED <<cbvars, op, itemOut, pre, inserted, everOw, last_error,
                   query, statvars>>

\* Fault variant: the slot is copied out before the empty buffer is refused.
RemLoadInCopies(t) ==
    /\ pc[t] = "rem_load_in"
    /\ IF IsEmpty(loc[t].current_out, in)
       THEN /\ RemReturn(t, CB_ERROR_BUFFER_EMPTY)
            /\ itemOut' = [itemOut EXCEPT ![t] = buf[loc[t].current_out]]
       ELSE /\ GoTo(t, "rem_read", [loc[t] EXCEPT !.current_in = in])
            /\ UNCHANGED <<removed, itemOut>>
    /\ UNCHANGED <<cbvars, op, pre, inserted, everOw, last_error, query, statvars>>

\* current_in = load(in); if (current_out == current_in) return CB_ERROR_BUFFER_EMPTY
RemLoadIn(t) ==
    /\ pc[t] = "rem_load_in"
    /\ IF IsEmpty(loc[t].current_out, in)
       THEN IF statistics
            THEN StatHook(t, "stat_update", FALSE, FALSE) /\ UNCHANGED removed
            ELSE RemReturn(t, CB_ERROR_BUFFER_EMPTY)
       ELSE /\ GoTo(t, "rem_read", [loc[t] EXCEPT !.current_in = in])
            /\ UNCHANGED removed
    /\ UNCHANGED <<cbvars, op, itemOut, pre, inserted, everOw, last_error,
                   query, statvars>>

\* *itemOut = buf[current_out]; barrier
\* (itemOut is &items[*removed] when called by cb_remove_bulk_ex)
RemRead(t) ==
    /\ pc[t] = "rem_read"
    /\ LET v == buf[loc[t].current_out]
       IN  /\ IF op[t] = "cb_remove_bulk_ex"
              THEN /\ bulk' = [bulk EXCEPT ![t] =
                                 [@ EXCEPT !.items = [@ EXCEPT ![bulk[t].n + 1] = v]]]
                   /\ UNCHANGED itemOut
              ELSE /\ itemOut' = [itemOut EXCEPT ![t] = v]
                   /\ UNCHANGED bulk
           /\ pc' = [pc EXCEPT ![t] = "rem_publish"]
           /\ loc' = [loc EXCEPT ![t] = [@ EXCEPT !.item = v]]
    /\ UNCHANGED <<cbvars, op, res, pre, inserted, removed, everOw, last_error,
                   timed, query, statvars>>

\* store(out, (current_out + 1) % size); return CB_SUCCESS
RemPublish(t) ==
    /\ pc[t] = "rem_publish"
    /\ out' = NextIndex(loc[t].current_out)
    /\ IF statistics
       THEN StatHook(t, "stat_load_in", FALSE, TRUE) /\ UNCHANGED removed
       ELSE RemReturn(t, CB_SUCCESS)
    /\ UNCHANGED <<size, buf, in, overwrite, op, itemOut, pre, inserted,
                   everOw, last_error, query, statvars>>

\* ---------------------------- the statistics hooks of cb_insert_ex / cb_remove_ex
\* cb_dataSize: size check, in = load(in)
StatLoadIn(t) ==
    /\ pc[t] = "stat_load_in"
    /\ IF size = 0
       THEN GoTo(t, "stat_update", [loc[t] EXCEPT !.data_size = 0])
       ELSE GoTo(t, "stat_load_out", [loc[t] EXCEPT !.stat_in = in])
    /\ UNCHANGED <<cbvars, op, itemOut, pre, inserted, removed, everOw,
                   last_error, query, statvars>>

\* cb_dataSize: out = load(out); return the data size
StatLoadOut(t) ==
    /\ pc[t] = "stat_load_out"
    /\ GoTo(t, "stat_update",
            [loc[t] EXCEPT !.data_size =
                IF loc[t].stat_in >= out THEN loc[t].stat_in - out
                ELSE size - out + loc[t].stat_in])
    /\ UNCHANGED <<cbvars, op, itemOut, pre, inserted, removed, everOw,
                   last_error, query, statvars>>

\* What the caller saw happen to the buffer, counted from the result code r
\* of a call that leaves held elements in the buffer.
Tallied(s, is_insert, r, held) ==
    [peak_usage |-> IF is_insert /\ r = CB_SUCCESS /\ held > s.peak_usage
                    THEN held ELSE s.peak_usage,
     total_inserts |-> IF is_insert /\ r = CB_SUCCESS
                       THEN s.total_inserts + 1 ELSE s.total_inserts,
     total_removes |-> IF ~is_insert /\ r = CB_SUCCESS
                       THEN s.total_removes + 1 ELSE s.total_removes,
     overflow_count |-> IF r = CB_ERROR_BUFFER_FULL
                        THEN s.overflow_count + 1 ELSE s.overflow_count,
     underflow_count |-> IF r = CB_ERROR_BUFFER_EMPTY
                         THEN s.underflow_count + 1 ELSE s.underflow_count]

\* cb_update_stats(cb_ptr, data_size, is_insert, is_success); return
\* CB_SUCCESS, CB_ERROR_BUFFER_FULL resp. CB_ERROR_BUFFER_EMPTY
StatUpdate(t) ==
    /\ pc[t] = "stat_update"
    /\ UpdateStats(ThisCb, loc[t].data_size, loc[t].is_insert, loc[t].is_success)
    /\ statistics' = statistics
    /\ LET r == IF loc[t].is_success THEN CB_SUCCESS
                ELSE IF loc[t].is_insert THEN CB_ERROR_BUFFER_FULL
                ELSE CB_ERROR_BUFFER_EMPTY
       IN  /\ tally' = Tallied(tally, loc[t].is_insert, r, DataSize(in, out))
           /\ IF loc[t].is_insert
              THEN InsReturn(t, r) /\ UNCHANGED removed
              ELSE RemReturn(t, r) /\ UNCHANGED inserted
    /\ UNCHANGED <<cbvars, op, itemOut, pre, everOw, last_error, query>>

\* ------------------------------------------------------------ cb_peek_ex
\* size check, current_out = load(out)
PeekLoadOut(t) ==
    /\ pc[t] = "peek_load_out"
    /\ IF size = 0
       THEN Return(t, PlainResult(t, CB_ERROR_INVALID_SIZE))
       ELSE /\ pc' = [pc EXCEPT ![t] = "peek_load_in"]
            /\ loc' = [loc EXCEPT ![t] = [@ EXCEPT !.current_out = out]]
            /\ UNCHANGED res
    /\ UNCHANGED <<cbvars, op, bulk, itemOut, pre, inserted, removed, everOw,
                   last_error, timed, query, statvars>>

\* Fault variant: the offset equal to the number of stored elements is accepted.
PeekLoadInInclusive(t) ==
    /\ pc[t] = "peek_load_in"
    /\ LET current_out == loc[t].current_out
           available == IF in >= current_out
                        THEN in - current_out
                        ELSE size - current_out + in
       IN  IF loc[t].offset > available
           THEN Return(t, CB_ERROR_INVALID_OFFSET)
           ELSE /\ pc' = [pc EXCEPT ![t] = "peek_read"]
                /\ loc' = [loc EXCEPT ![t] =
                              [@ EXCEPT !.current_in = in,
                                        !.pos = (current_out + loc[t].offset) % size]]
                /\ UNCHANGED res
    /\ UNCHANGED <<cbvars, op, bulk, itemOut, pre, inserted, removed, everOw,
                   last_error, timed, query, statvars>>

\* current_in = load(in); available; offset check; pos
PeekLoadIn(t) ==
    /\ pc[t] = "peek_load_in"
    /\ LET current_out == loc[t].current_out
           available == IF in >= current_out
                        THEN in - current_out
                        ELSE size - current_out + in
       IN  IF loc[t].offset >= available
           THEN Return(t, PlainResult(t, CB_ERROR_INVALID_OFFSET))
           ELSE /\ pc' = [pc EXCEPT ![t] = "peek_read"]
                /\ loc' = [loc EXCEPT ![t] =
                              [@ EXCEPT !.current_in = in,
                                        !.pos = (current_out + loc[t].offset) % size]]
                /\ UNCHANGED res
    /\ UNCHANGED <<cbvars, op, bulk, itemOut, pre, inserted, removed, everOw,
                   last_error, timed, query, statvars>>

\* Fault variant: the element peeked at is also consumed.
PeekReadConsumes(t) ==
    /\ pc[t] = "peek_read"
    /\ itemOut' = [itemOut EXCEPT ![t] = buf[loc[t].pos]]
    /\ out' = NextIndex(loc[t].current_out)
    /\ Return(t, CB_SUCCESS)
    /\ UNCHANGED <<size, buf, in, overwrite, op, bulk, pre, inserted, removed,
                   everOw, last_error, timed, query, statvars>>

\* *itemOut = buf[pos]; return CB_SUCCESS
PeekRead(t) ==
    /\ pc[t] = "peek_read"
    /\ itemOut' = [itemOut EXCEPT ![t] = buf[loc[t].pos]]
    /\ Return(t, PlainResult(t, CB_SUCCESS))
    /\ UNCHANGED <<cbvars, op, bulk, pre, inserted, removed, everOw,
                   last_error, timed, query, statvars>>

\* ------------------------------------------ cb_insert_bulk_ex / cb_remove_bulk_ex
\* Fault variant: the count is checked before the size.
BulkInsEntryCountFirst(t) ==
    /\ pc[t] = "bi_entry"
    /\ IF bulk[t].count = 0
       THEN Return(t, CB_ERROR_INVALID_COUNT) /\ bulk' = bulk
       ELSE IF size = 0
       THEN Return(t, CB_ERROR_INVALID_SIZE) /\ bulk' = bulk
       ELSE /\ bulk' = [bulk EXCEPT ![t] = [@ EXCEPT !.overwrite_enabled = overwrite]]
            /\ pc' = [pc EXCEPT ![t] = "ins_load_in"]
            /\ loc' = [loc EXCEPT ![t] = [NoLoc EXCEPT !.item = bulk[t].items[1]]]
            /\ UNCHANGED res
    /\ UNCHANGED <<cbvars, op, itemOut, pre, inserted, removed, everOw,
                   last_error, timed, query, statvars>>

\* argument checks, *inserted = 0, overwrite_enabled = load(overwrite),
\* first loop test
BulkInsEntry(t) ==
    /\ pc[t] = "bi_entry"
    /\ IF size = 0
       THEN Return(t, CB_ERROR_INVALID_SIZE) /\ bulk' = bulk
       ELSE IF bulk[t].count = 0
       THEN Return(t, CB_ERROR_INVALID_COUNT) /\ bulk' = bulk
       ELSE /\ bulk' = [bulk EXCEPT ![t] = [@ EXCEPT !.overwrite_enabled = overwrite]]
            /\ pc' = [pc EXCEPT ![t] = "ins_load_in"]
            /\ loc' = [loc EXCEPT ![t] = [NoLoc EXCEPT !.item = bulk[t].items[1]]]
            /\ UNCHANGED res
    /\ UNCHANGED <<cbvars, op, itemOut, pre, inserted, removed, everOw,
                   last_error, timed, query, statvars>>

\* Fault variant: a count of zero is accepted as a transfer of nothing.
BulkRemEntryZeroOk(t) ==
    /\ pc[t] = "br_entry"
    /\ IF size = 0
       THEN Return(t, CB_ERROR_INVALID_SIZE)
       ELSE IF bulk[t].count = 0
       THEN Return(t, CB_SUCCESS)
       ELSE /\ pc' = [pc EXCEPT ![t] = "rem_load_out"]
            /\ loc' = [loc EXCEPT ![t] = NoLoc]
            /\ UNCHANGED res
    /\ UNCHANGED <<cbvars, op, bulk, itemOut, pre, inserted, removed, everOw,
                   last_error, timed, query, statvars>>

\* argument checks, *removed = 0, first loop test
BulkRemEntry(t) ==
    /\ pc[t] = "br_entry"
    /\ IF size = 0
       THEN Return(t, CB_ERROR_INVALID_SIZE)
       ELSE IF bulk[t].count = 0
       THEN Return(t, CB_ERROR_INVALID_COUNT)
       ELSE /\ pc' = [pc EXCEPT ![t] = "rem_load_out"]
            /\ loc' = [loc EXCEPT ![t] = NoLoc]
            /\ UNCHANGED res
    /\ UNCHANGED <<cbvars, op, bulk, itemOut, pre, inserted, removed, everOw,
                   last_error, timed, query, statvars>>

\* ------------------------------ cb_freeSpace / cb_dataSize / cb_sanity_check
QueryOps == {"cb_freeSpace", "cb_dataSize", "cb_sanity_check"}

\* Fault variant: cb_freeSpace counts the slot that is kept empty.
QueryResultFreeCountsAll(t, i, o) ==
    LET data_size == IF i >= o THEN i - o ELSE size - o + i
    IN  [in |-> i, out |-> o,
         value |-> IF op[t] = "cb_freeSpace"
                   THEN (IF i >= o THEN size - (i - o) ELSE o - i)
                   ELSE data_size,
         valid |-> (i < size /\ o < size /\ data_size < size)]

\* Fault variant: cb_sanity_check does not test out against size.
QueryResultNoOutCheck(t, i, o) ==
    LET data_size == IF i >= o THEN i - o ELSE size - o + i
    IN  [in |-> i, out |-> o,
         value |-> IF op[t] = "cb_freeSpace"
                   THEN (IF i >= o THEN (size - 1) - (i - o) ELSE o - i - 1)
                   ELSE data_size,
         valid |-> (i < size /\ data_size < size)]

\* The value computed from the two loaded indices i and o.
QueryResult(t, i, o) ==
    LET data_size == IF i >= o THEN i - o ELSE size - o + i
    IN  [in |-> i, out |-> o,
         value |-> IF op[t] = "cb_freeSpace"
                   THEN (IF i >= o THEN (size - 1) - (i - o) ELSE o - i - 1)
                   ELSE data_size,
         valid |-> (i < size /\ o < size /\ data_size < size)]

\* if (cb_ptr->size == 0) return 0 resp. false; cb_sanity_check also:
\* if (!cb_ptr->buf) return false; in = load(in)
QueryLoadIn(t) ==
    /\ pc[t] = "q_load_in"
    /\ IF size = 0 \/ (op[t] = "cb_sanity_check" /\ ~StorageBound)
       THEN /\ pc' = [pc EXCEPT ![t] = "idle"]
            /\ query' = [query EXCEPT ![t] = NoQuery]
       ELSE /\ pc' = [pc EXCEPT ![t] = "q_load_out"]
            /\ query' = [query EXCEPT ![t] = [NoQuery EXCEPT !.in = in]]
    /\ UNCHANGED <<cbvars, op, loc, bulk, res, itemOut, pre, inserted, removed,
                   everOw, last_error, timed, statvars>>

\* out = load(out); return the free space, the data size or the verdict
QueryLoadOut(t) ==
    /\ pc[t] = "q_load_out"
    /\ pc' = [pc EXCEPT ![t] = "idle"]
    /\ query' = [query EXCEPT ![t] =
                     [before |-> IF op[t] = "cb_freeSpace" THEN Len(inserted)
                                 ELSE Len(removed)]
                     @@ QueryResult(t, query[t].in, out)]
    /\ UNCHANGED <<cbvars, op, loc, bulk, res, itemOut, pre, inserted, removed,
                   everOw, last_error, timed, statvars>>

\* ------------------------------------------- cb_init_ex on a used structure
\* Fault variant: the overwrite flag is not reset.
InitExKeepsOverwrite(t, storageNull, bufferLength) ==
    /\ pc[t] = "idle"
    /\ op' = [op EXCEPT ![t] = "cb_init_ex"]
    /\ pre' = [pre EXCEPT ![t] = Snapshot(t, 0)]
    /\ IF storageNull
       THEN /\ last_error' = [code |-> CB_ERROR_NULL_POINTER,
                              function |-> "cb_init_ex",
                              parameter |-> "bufferStorage"]
            /\ res' = [res EXCEPT ![t] = CB_ERROR_NULL_POINTER]
            /\ UNCHANGED cbvars
       ELSE /\ buf' = [i \in 0..(bufferLength - 1) |->
                          IF i \in DOMAIN buf THEN buf[i] ELSE Uninit]
            /\ size' = bufferLength
            /\ in' = 0
            /\ out' = 0
            /\ overwrite' = overwrite
            /\ last_error' = IF bufferLength = 0
                             THEN [code |-> CB_ERROR_INVALID_SIZE,
                                   function |-> "cb_init_ex",
                                   parameter |-> "bufferLength"]
                             ELSE NoError
            /\ res' = [res EXCEPT ![t] = IF bufferLength = 0
                                         THEN CB_ERROR_INVALID_SIZE
                                         ELSE CB_SUCCESS]
    /\ IF statistics /\ ~storageNull
       THEN /\ cb_instances' = FindOrRegister(ThisCb).instances
            /\ cb_stats' = FindOrRegister(ThisCb).stats
       ELSE UNCHANGED <<cb_instances, cb_stats>>
    /\ UNCHANGED <<pc, loc, bulk, itemOut, inserted, removed, everOw, timed,
                   query, statistics, tally>>

\* cb_init_ex(cb_ptr, bufferStorage, bufferLength) called by thread t on a
\* structure in any state, no operation in progress. bufferStorage is an
\* array of bufferLength elements that keeps what it holds. With statistics
\* the structure is looked up in, or added to, the table of instances.
InitEx(t, storageNull, bufferLength) ==
    /\ pc[t] = "idle"
    /\ op' = [op EXCEPT ![t] = "cb_init_ex"]
    /\ pre' = [pre EXCEPT ![t] = Snapshot(t, 0)]
    /\ IF storageNull
       THEN /\ last_error' = [code |-> CB_ERROR_NULL_POINTER,
                              function |-> "cb_init_ex",
                              parameter |-> "bufferStorage"]
            /\ res' = [res EXCEPT ![t] = CB_ERROR_NULL_POINTER]
            /\ UNCHANGED cbvars
       ELSE /\ buf' = [i \in 0..(bufferLength - 1) |->
                          IF i \in DOMAIN buf THEN buf[i] ELSE Uninit]
            /\ size' = bufferLength
            /\ in' = 0
            /\ out' = 0
            /\ overwrite' = FALSE
            /\ last_error' = IF bufferLength = 0
                             THEN [code |-> CB_ERROR_INVALID_SIZE,
                                   function |-> "cb_init_ex",
                                   parameter |-> "bufferLength"]
                             ELSE NoError
            /\ res' = [res EXCEPT ![t] = IF bufferLength = 0
                                         THEN CB_ERROR_INVALID_SIZE
                                         ELSE CB_SUCCESS]
    /\ IF statistics /\ ~storageNull
       THEN /\ cb_instances' = FindOrRegister(ThisCb).instances
            /\ cb_stats' = FindOrRegister(ThisCb).stats
       ELSE UNCHANGED <<cb_instances, cb_stats>>
    /\ UNCHANGED <<pc, loc, bulk, itemOut, inserted, removed, everOw, timed,
                   query, statistics, tally>>

\* ---------------------------------------------------- cb_set_overwrite_ex
\* store(overwrite, enable ? 1 : 0); barrier; return CB_SUCCESS
SetOverwrite(t, enable) ==
    /\ pc[t] = "idle"
    /\ overwrite' = enable
    /\ everOw' = (everOw \/ enable)
    /\ op' = [op EXCEPT ![t] = "cb_set_overwrite_ex"]
    /\ res' = [res EXCEPT ![t] = CB_SUCCESS]
    /\ pre' = [pre EXCEPT ![t] = Snapshot(t, 0)]
    /\ UNCHANGED <<size, buf, in, out, pc, loc, bulk, itemOut, inserted, removed,
                   last_error, timed, query, statvars>>

\* ------------------------------------------------------------ the callers
CallInsert(t, item) ==
    /\ Call(t, "cb_insert_ex", "ins_load_in", [NoLoc EXCEPT !.item = item], item)
    /\ UNCHANGED <<cbvars, bulk, res, itemOut, inserted, removed, everOw,
                   last_error, timed, query, statvars>>

CallRemove(t) ==
    /\ Call(t, "cb_remove_ex", "rem_load_out", NoLoc, 0)
    /\ UNCHANGED <<cbvars, bulk, res, itemOut, inserted, removed, everOw,
                   last_error, timed, query, statvars>>

CallPeek(t, offset) ==
    /\ Call(t, "cb_peek_ex", "peek_load_out", [NoLoc EXCEPT !.offset = offset], 0)
    /\ UNCHANGED <<cbvars, bulk, res, itemOut, inserted, removed, everOw,
                   last_error, timed, query, statvars>>

\* cb_insert, cb_remove, cb_peek: return cb_*_ex(...) == CB_SUCCESS
CallInsertBool(t, item) ==
    /\ Call(t, "cb_insert", "ins_load_in", [NoLoc EXCEPT !.item = item], item)
    /\ UNCHANGED <<cbvars, bulk, res, itemOut, inserted, removed, everOw,
                   last_error, timed, query, statvars>>

CallRemoveBool(t) ==
    /\ Call(t, "cb_remove", "rem_load_out", NoLoc, 0)
    /\ UNCHANGED <<cbvars, bulk, res, itemOut, inserted, removed, everOw,
                   last_error, timed, query, statvars>>

CallPeekBool(t, offset) ==
    /\ Call(t, "cb_peek", "peek_load_out", [NoLoc EXCEPT !.offset = offset], 0)
    /\ UNCHANGED <<cbvars, bulk, res, itemOut, inserted, removed, everOw,
                   last_error, timed, query, statvars>>

CallInsertBulk(t, items) ==
    /\ Call(t, "cb_insert_bulk_ex", "bi_entry", NoLoc, 0)
    /\ bulk' = [bulk EXCEPT ![t] = [NoBulk EXCEPT !.items = items,
                                                   !.count = Len(items)]]
    /\ UNCHANGED <<cbvars, res, itemOut, inserted, removed, everOw,
                   last_error, timed, query, statvars>>

CallRemoveBulk(t, count) ==
    /\ Call(t, "cb_remove_bulk_ex", "br_entry", NoLoc, 0)
    /\ bulk' = [bulk EXCEPT ![t] = [NoBulk EXCEPT !.items = [k \in 1..count |-> Uninit],
                                                   !.count = count]]
    /\ UNCHANGED <<cbvars, res, itemOut, inserted, removed, everOw,
                   last_error, timed, query, statvars>>

CallInsertTimeout(t, o, item, timeout_ms) ==
    /\ Call(t, o, "ins_load_in", [NoLoc EXCEPT !.item = item], item)
    /\ timed' = [timed EXCEPT ![t] = [NoTimed EXCEPT !.timeout_ms = timeout_ms,
                                                     !.item = item]]
    /\ UNCHANGED <<cbvars, bulk, res, itemOut, inserted, removed, everOw,
                   last_error, query, statvars>>

CallRemoveTimeout(t, o, itemOutNull, timeout_ms) ==
    /\ Call(t, o, IF o = "cb_remove_timeout_ex" THEN "rte_entry" ELSE "rem_load_out",
            NoLoc, 0)
    /\ timed' = [timed EXCEPT ![t] = [NoTimed EXCEPT !.timeout_ms = timeout_ms,
                                                     !.itemOutNull = itemOutNull]]
    /\ UNCHANGED <<cbvars, bulk, res, itemOut, inserted, removed, everOw,
                   last_error, query, statvars>>

CallQuery(t, o) ==
    /\ Call(t, o, "q_load_in", NoLoc, 0)
    /\ UNCHANGED <<cbvars, bulk, res, itemOut, inserted, removed, everOw,
                   last_error, timed, query, statvars>>

\* One step of any running operation of thread t.
Step(t) ==
    \/ InsLoadIn(t) \/ InsLoadOut(t) \/ InsLoadOw(t) \/ InsEvict(t)
    \/ InsWrite(t) \/ InsPublish(t)
    \/ RemLoadOut(t) \/ RemLoadIn(t) \/ RemRead(t) \/ RemPublish(t)
    \/ PeekLoadOut(t) \/ PeekLoadIn(t) \/ PeekRead(t)

\* The values offered to the buffer are 1, 2, ..., MaxItems, in this order.
NextItem == Len(inserted) + 1

AllIdle == \A t \in Threads : pc[t] = "idle"

\* ------------------------------------------- Spec: producer || consumer
\* The producer offers the next value, again after CB_ERROR_BUFFER_FULL.
ProducerInsert ==
    /\ NextItem <= MaxItems
    /\ CallInsert("P", NextItem)

ConsumerRemove == CallRemove("C")

ConsumerPeek == \E offset \in 0..MaxSize : CallPeek("C", offset)

\* The overwrite mode is changed only while neither side is inside a call.
Configure == AllIdle /\ \E enable \in BOOLEAN : SetOverwrite("P", enable)

ProducerStep ==
    \/ InsLoadIn("P") \/ InsLoadOut("P") \/ InsLoadOw("P") \/ InsEvict("P")
    \/ InsWrite("P") \/ InsPublish("P")

ConsumerStep ==
    \/ RemLoadOut("C") \/ RemLoadIn("C") \/ RemRead("C") \/ RemPublish("C")
    \/ PeekLoadOut("C") \/ PeekLoadIn("C") \/ PeekRead("C")

Next ==
    \/ ProducerInsert
    \/ ConsumerRemove
    \/ ConsumerPeek
    \/ Configure
    \/ ProducerStep
    \/ ConsumerStep

Spec == Init /\ [][Next]_vars

\* ------------------------------------------------ SpecSeq: one caller
SeqInsert ==
    /\ NextItem <= MaxItems
    /\ CallInsert("P", NextItem)

SeqRemove == CallRemove("P")

SeqPeek == \E offset \in 0..MaxSize : CallPeek("P", offset)

SeqInsertBulk ==
    \E count \in 0..MaxCount :
        /\ Len(inserted) + count <= MaxItems
        /\ CallInsertBulk("P", [k \in 1..count |-> Len(inserted) + k])

SeqRemoveBulk == \E count \in 0..MaxCount : CallRemoveBulk("P", count)

SeqSetOverwrite == \E enable \in BOOLEAN : SetOverwrite("P", enable)

SeqStep == Step("P") \/ BulkInsEntry("P") \/ BulkRemEntry("P")

NextSeq ==
    \/ SeqInsert
    \/ SeqRemove
    \/ SeqPeek
    \/ SeqInsertBulk
    \/ SeqRemoveBulk
    \/ SeqSetOverwrite
    \/ SeqStep

SpecSeq == Init /\ [][NextSeq]_vars

\* The overwrite mode is chosen before the first call.
ConfigureOnce ==
    /\ op["P"] = "none" /\ op["C"] = "none"
    /\ SetOverwrite("P", TRUE)

\* ------------- SpecOps: producer || consumer, every non-timed operation
\* One side keeps calling one of its operations while the other side keeps
\* calling the plain cb_insert_ex resp. cb_remove_ex.
PlainOps == {"none", "cb_insert_ex", "cb_remove_ex", "cb_set_overwrite_ex"}

\* The producer may call o while the consumer calls cb_remove_ex.
ProducerCalls(o) ==
    /\ op["C"] \in PlainOps
    /\ op["P"] \in {"none", "cb_set_overwrite_ex", o}

\* The consumer may call o while the producer calls cb_insert_ex.
ConsumerCalls(o) ==
    /\ op["P"] \in PlainOps
    /\ op["C"] \in {"none", o}

OpsProducerInsert ==
    /\ NextItem <= MaxItems
    /\ op["P"] \in PlainOps
    /\ CallInsert("P", NextItem)

OpsProducerInsertBulk ==
    /\ ProducerCalls("cb_insert_bulk_ex")
    /\ \E count \in 0..MaxCount :
           /\ Len(inserted) + count <= MaxItems
           /\ CallInsertBulk("P", [k \in 1..count |-> Len(inserted) + k])

OpsProducerQuery ==
    /\ ProducerCalls("cb_freeSpace")
    /\ CallQuery("P", "cb_freeSpace")

OpsConsumerRemove ==
    /\ op["C"] \in PlainOps
    /\ CallRemove("C")

OpsConsumerRemoveBulk ==
    /\ ConsumerCalls("cb_remove_bulk_ex")
    /\ \E count \in 0..MaxCount : CallRemoveBulk("C", count)

OpsConsumerPeek ==
    /\ ConsumerCalls("cb_peek_ex")
    /\ \E offset \in 0..MaxSize : CallPeek("C", offset)

OpsConsumerQuery ==
    \E o \in {"cb_dataSize", "cb_sanity_check"} :
        ConsumerCalls(o) /\ CallQuery("C", o)

\* One step of the running non-timed operation of thread t.
OpStep(t) ==
    \/ Step(t)
    \/ BulkInsEntry(t) \/ BulkRemEntry(t)
    \/ QueryLoadIn(t) \/ QueryLoadOut(t)

NextOps ==
    \/ OpsProducerInsert
    \/ OpsProducerInsertBulk
    \/ OpsProducerQuery
    \/ OpsConsumerRemove
    \/ OpsConsumerRemoveBulk
    \/ OpsConsumerPeek
    \/ OpsConsumerQuery
    \/ ConfigureOnce
    \/ OpStep("P")
    \/ OpStep("C")

SpecOps == Init /\ [][NextOps]_vars

\* ------------- SpecTimed: a timed operation on one side || the other side
\* One side keeps calling one of its timed operations while the other side
\* keeps calling the plain cb_insert_ex resp. cb_remove_ex.
TimedProducerInsert ==
    /\ NextItem <= MaxItems
    /\ \E o \in {"cb_insert_timeout", "cb_insert_timeout_ex"} :
           /\ ProducerCalls(o)
           /\ \E timeout_ms \in 0..MaxTimeout :
                  CallInsertTimeout("P", o, NextItem, timeout_ms)

TimedConsumerRemove ==
    \E o \in {"cb_remove_timeout", "cb_remove_timeout_ex"} :
        /\ ConsumerCalls(o)
        /\ \E itemOutNull \in BOOLEAN :
               \E timeout_ms \in 0..MaxTimeout :
                   CallRemoveTimeout("C", o, itemOutNull, timeout_ms)

OtherProducerInsert ==
    /\ NextItem <= MaxItems
    /\ op["C"] \in TimedOps
    /\ CallInsert("P", NextItem)

OtherConsumerRemove ==
    /\ op["P"] \in TimedOps
    /\ CallRemove("C")

TimedProducerStep ==
    \/ InsLoadIn("P") \/ InsLoadOut("P") \/ InsLoadOw("P") \/ InsEvict("P")
    \/ InsWrite("P") \/ InsPublish("P")
    \/ TimedSleep("P") \/ TimedExpire("P")

TimedConsumerStep ==
    \/ RemTimeoutExEntry("C")
    \/ RemLoadOut("C") \/ RemLoadIn("C") \/ RemRead("C") \/ RemPublish("C")
    \/ TimedSleep("C") \/ TimedExpire("C")

NextTimed ==
    \/ TimedProducerInsert
    \/ TimedConsumerRemove
    \/ OtherProducerInsert
    \/ OtherConsumerRemove
    \/ ConfigureOnce
    \/ TimedProducerStep
    \/ TimedConsumerStep

SpecTimed == Init /\ [][NextTimed]_vars

\* ------- SpecLive: producer || consumer, overwrite disabled, both scheduled
\* The producer offers its next value again until it is accepted.
LiveProducerInsert ==
    /\ NextItem <= MaxItems
    /\ CallInsert("P", NextItem)

\* The consumer keeps calling cb_remove_ex.
LiveConsumerRemove == CallRemove("C")

LiveProducerStep ==
    \/ InsLoadIn("P") \/ InsLoadOut("P") \/ InsLoadOw("P")
    \/ InsWrite("P") \/ InsPublish("P")

LiveConsumerStep ==
    \/ RemLoadOut("C") \/ RemLoadIn("C") \/ RemRead("C") \/ RemPublish("C")

\* Everything the producer thread resp. the consumer thread can do.
LiveProducer == LiveProducerInsert \/ LiveProducerStep

LiveConsumer == LiveConsumerRemove \/ LiveConsumerStep

NextLive == LiveProducer \/ LiveConsumer

\* Each thread that can run is scheduled again and again.
SpecLive ==
    /\ Init
    /\ [][NextLive]_vars
    /\ WF_vars(LiveProducer)
    /\ WF_vars(LiveConsumer)

\* ------------------------ SpecZero: one caller, every operation, capacity 0
\* cb_init_ex(cb_ptr, bufferStorage, 0): the buffer is set up with size 0 and
\* CB_ERROR_INVALID_SIZE is returned.
InitZero == Init /\ size = 0

ZeroInsert == CallInsert("P", NextItem)

ZeroInsertBulk ==
    \E count \in 0..MaxCount :
        CallInsertBulk("P", [k \in 1..count |-> Len(inserted) + k])

ZeroInsertTimeout ==
    \E o \in {"cb_insert_timeout", "cb_insert_timeout_ex"} :
        \E timeout_ms \in 0..MaxTimeout :
            CallInsertTimeout("P", o, NextItem, timeout_ms)

ZeroFreeSpace == CallQuery("P", "cb_freeSpace")

ZeroSetOverwrite == \E enable \in BOOLEAN : SetOverwrite("P", enable)

ZeroRemove == CallRemove("P")

ZeroRemoveBulk == \E count \in 0..MaxCount : CallRemoveBulk("P", count)

ZeroRemoveTimeout ==
    \E o \in {"cb_remove_timeout", "cb_remove_timeout_ex"} :
        \E itemOutNull \in BOOLEAN :
            \E timeout_ms \in 0..MaxTimeout :
                CallRemoveTimeout("P", o, itemOutNull, timeout_ms)

ZeroPeek == \E offset \in 0..MaxSize : CallPeek("P", offset)

ZeroQuery == \E o \in {"cb_dataSize", "cb_sanity_check"} : CallQuery("P", o)

\* The checks at the entry of each operation; none gets past its size check.
ZeroStep(t) ==
    \/ InsLoadIn(t) \/ BulkInsEntry(t)
    \/ RemTimeoutExEntry(t) \/ RemLoadOut(t) \/ BulkRemEntry(t)
    \/ PeekLoadOut(t)
    \/ QueryLoadIn(t)

NextZero ==
    \/ ZeroInsert
    \/ ZeroInsertBulk
    \/ ZeroInsertTimeout
    \/ ZeroFreeSpace
    \/ ZeroSetOverwrite
    \/ ZeroRemove
    \/ ZeroRemoveBulk
    \/ ZeroRemoveTimeout
    \/ ZeroPeek
    \/ ZeroQuery
    \/ ZeroStep("P")

SpecZero == InitZero /\ [][NextZero]_vars

\* -------------- SpecUnbound: cb_insert_ex on a buffer without storage
\* cb_init_ex(cb_ptr, NULL, n) returns CB_ERROR_NULL_POINTER at line 177 and
\* stores nothing but last_error: size, in, out and overwrite keep what the
\* structure held before (zeros for a static structure, anything for one on
\* the stack), and buf points to no storage.
InitUnbound ==
    /\ size \in Capacities
    /\ buf = [i \in {} |-> Uninit]
    /\ in \in {0} \cup 0..(size - 1)
    /\ out \in {0} \cup 0..(size - 1)
    /\ overwrite \in BOOLEAN
    /\ pc = [t \in Threads |-> "idle"]
    /\ op = [t \in Threads |-> "none"]
    /\ loc = [t \in Threads |-> NoLoc]
    /\ bulk = [t \in Threads |-> NoBulk]
    /\ res = [t \in Threads |-> CB_SUCCESS]
    /\ itemOut = [t \in Threads |-> Uninit]
    /\ inserted = <<>>
    /\ removed = <<>>
    /\ everOw = overwrite
    /\ last_error = [code |-> CB_ERROR_NULL_POINTER, function |-> "cb_init_ex",
                     parameter |-> "bufferStorage"]
    /\ timed = [t \in Threads |-> NoTimed]
    /\ query = [t \in Threads |-> NoQuery]
    /\ StatisticsOff
    /\ pre = [t \in Threads |-> Snapshot(t, 0)]

UnboundInsert ==
    /\ NextItem <= MaxItems
    /\ CallInsert("P", NextItem)

UnboundStep ==
    \/ InsLoadIn("P") \/ InsLoadOut("P") \/ InsLoadOw("P") \/ InsEvict("P")
    \/ InsWrite("P") \/ InsPublish("P")

NextUnbound == UnboundInsert \/ UnboundStep

SpecUnbound == InitUnbound /\ [][NextUnbound]_vars

\* ---- SpecSanity: one caller, cb_sanity_check between the other operations
\* The buffer was initialised by cb_init_ex, or cb_init_ex refused a null
\* bufferStorage.
InitSanity == Init \/ InitUnbound

\* No index was written directly and buf points to storage.
Intact == StorageBound /\ op["C"] # "corrupt"

SanityInsert ==
    /\ Intact
    /\ NextItem <= MaxItems
    /\ CallInsert("P", NextItem)

SanityRemove == Intact /\ CallRemove("P")

SanityPeek == Intact /\ \E offset \in 0..MaxSize : CallPeek("P", offset)

SanitySetOverwrite == \E enable \in BOOLEAN : SetOverwrite("P", enable)

SanityCheck == CallQuery("P", "cb_sanity_check")

\* buffer.in = N + 1: the test fixture (recorded as thread C) writes an index
\* field directly, to a value outside [0, size).
SanityCorrupt ==
    /\ pc["P"] = "idle"
    /\ op["C"] # "corrupt"
    /\ \E v \in size..(MaxSize + 1) :
           \/ in' = v /\ out' = out
           \/ out' = v /\ in' = in
    /\ op' = [op EXCEPT !["C"] = "corrupt"]
    /\ UNCHANGED <<size, buf, overwrite, pc, loc, bulk, res, itemOut, pre,
                   inserted, removed, everOw, last_error, timed, query, statvars>>

SanityStep == Step("P") \/ QueryLoadIn("P") \/ QueryLoadOut("P")

NextSanity ==
    \/ SanityInsert
    \/ SanityRemove
    \/ SanityPeek
    \/ SanitySetOverwrite
    \/ SanityCheck
    \/ SanityCorrupt
    \/ SanityStep

SpecSanity == InitSanity /\ [][NextSanity]_vars

\* --------------------- SpecInit: one caller, cb_init_ex on a used structure
\* The caller uses the buffer and then initialises the structure again, with
\* any arguments and any number of times.
InUse == StorageBound /\ op["P"] # "cb_init_ex"

ReInitInsert ==
    /\ InUse
    /\ NextItem <= MaxItems
    /\ CallInsert("P", NextItem)

ReInitRemove == InUse /\ CallRemove("P")

ReInitSetOverwrite ==
    /\ op["P"] # "cb_init_ex"
    /\ \E enable \in BOOLEAN : SetOverwrite("P", enable)

ReInit ==
    \E storageNull \in BOOLEAN :
        \E bufferLength \in 0..MaxSize :
            InitEx("P", storageNull, bufferLength)

ReInitStep ==
    \/ InsLoadIn("P") \/ InsLoadOut("P") \/ InsLoadOw("P") \/ InsEvict("P")
    \/ InsWrite("P") \/ InsPublish("P")
    \/ RemLoadOut("P") \/ RemLoadIn("P") \/ RemRead("P") \/ RemPublish("P")

NextInit ==
    \/ ReInitInsert
    \/ ReInitRemove
    \/ ReInitSetOverwrite
    \/ ReInit
    \/ ReInitStep

SpecInit == InitSanity /\ [][NextInit]_vars

\* ------------- SpecQuiet: one caller, both size queries at quiescent states
\* The caller's cb_freeSpace is recorded as thread P's query and its
\* cb_dataSize as thread C's; no two operations overlap.
QuietInsert ==
    /\ AllIdle
    /\ NextItem <= MaxItems
    /\ CallInsert("P", NextItem)

QuietRemove == AllIdle /\ CallRemove("P")

QuietSetOverwrite == AllIdle /\ \E enable \in BOOLEAN : SetOverwrite("P", enable)

QuietFreeSpace == AllIdle /\ CallQuery("P", "cb_freeSpace")

QuietDataSize == AllIdle /\ CallQuery("C", "cb_dataSize")

QuietStep ==
    \/ InsLoadIn("P") \/ InsLoadOut("P") \/ InsLoadOw("P") \/ InsEvict("P")
    \/ InsWrite("P") \/ InsPublish("P")
    \/ RemLoadOut("P") \/ RemLoadIn("P") \/ RemRead("P") \/ RemPublish("P")
    \/ QueryLoadIn("P") \/ QueryLoadOut("P")
    \/ QueryLoadIn("C") \/ QueryLoadOut("C")

NextQuiet ==
    \/ QuietInsert
    \/ QuietRemove
    \/ QuietSetOverwrite
    \/ QuietFreeSpace
    \/ QuietDataSize
    \/ QuietStep

SpecQuiet == Init /\ [][NextQuiet]_vars

\* ------- SpecSurface: one caller, the bool and the result-code functions
\* No two calls overlap. The calls of the functions under comparison are
\* recorded as thread P, which keeps to one family of functions; the calls
\* of cb_insert_ex, cb_remove_ex and cb_set_overwrite_ex that fill and drain
\* the buffer beforehand are recorded as thread C.
InsertFamily == {"cb_insert", "cb_insert_ex", "cb_insert_timeout",
                 "cb_insert_timeout_ex"}

RemoveFamily == {"cb_remove", "cb_remove_ex", "cb_remove_timeout",
                 "cb_remove_timeout_ex"}

PeekFamily == {"cb_peek", "cb_peek_ex"}

SurfKeeps(family) == AllIdle /\ op["P"] \in {"none"} \cup family

SurfInsert ==
    /\ SurfKeeps(InsertFamily)
    /\ NextItem <= MaxItems
    /\ \/ CallInsert("P", NextItem)
       \/ CallInsertBool("P", NextItem)

SurfRemove ==
    /\ SurfKeeps(RemoveFamily)
    /\ CallRemove("P") \/ CallRemoveBool("P")

SurfPeek ==
    /\ SurfKeeps(PeekFamily)
    /\ \E offset \in 0..MaxSize :
           CallPeek("P", offset) \/ CallPeekBool("P", offset)

SurfInsertTimeout ==
    /\ SurfKeeps(InsertFamily)
    /\ NextItem <= MaxItems
    /\ \E o \in {"cb_insert_timeout", "cb_insert_timeout_ex"} :
           \E timeout_ms \in 0..MaxTimeout :
               CallInsertTimeout("P", o, NextItem, timeout_ms)

SurfRemoveTimeout ==
    /\ SurfKeeps(RemoveFamily)
    /\ \E o \in {"cb_remove_timeout", "cb_remove_timeout_ex"} :
           \E itemOutNull \in BOOLEAN :
               \E timeout_ms \in 0..MaxTimeout :
                   CallRemoveTimeout("P", o, itemOutNull, timeout_ms)

\* The buffer is prepared before the first call under comparison.
SurfPrepares == AllIdle /\ op["P"] = "none"

SurfFill ==
    /\ SurfPrepares
    /\ NextItem <= MaxItems
    /\ CallInsert("C", NextItem)

SurfDrain == SurfPrepares /\ CallRemove("C")

SurfSetOverwrite ==
    SurfPrepares /\ \E enable \in BOOLEAN : SetOverwrite("C", enable)

SurfStep ==
    \/ Step("P")
    \/ RemTimeoutExEntry("P") \/ TimedSleep("P") \/ TimedExpire("P")

SurfOtherStep ==
    \/ InsLoadIn("C") \/ InsLoadOut("C") \/ InsLoadOw("C") \/ InsEvict("C")
    \/ InsWrite("C") \/ InsPublish("C")
    \/ RemLoadOut("C") \/ RemLoadIn("C") \/ RemRead("C") \/ RemPublish("C")

NextSurface ==
    \/ SurfInsert
    \/ SurfRemove
    \/ SurfPeek
    \/ SurfInsertTimeout
    \/ SurfRemoveTimeout
    \/ SurfFill
    \/ SurfDrain
    \/ SurfSetOverwrite
    \/ SurfStep
    \/ SurfOtherStep

SpecSurface == Init /\ [][NextSurface]_vars

\* --- SpecBool: producer || consumer through cb_insert and cb_remove, with
\* the size queries; overwrite stays disabled as cb_init_ex left it.
BoolProducerInsert ==
    /\ NextItem <= MaxItems
    /\ CallInsertBool("P", NextItem)

BoolProducerFreeSpace == CallQuery("P", "cb_freeSpace")

BoolConsumerRemove == CallRemoveBool("C")

BoolConsumerDataSize == CallQuery("C", "cb_dataSize")

BoolProducerStep ==
    \/ InsLoadIn("P") \/ InsLoadOut("P") \/ InsLoadOw("P")
    \/ InsWrite("P") \/ InsPublish("P")
    \/ QueryLoadIn("P") \/ QueryLoadOut("P")

BoolConsumerStep ==
    \/ RemLoadOut("C") \/ RemLoadIn("C") \/ RemRead("C") \/ RemPublish("C")
    \/ QueryLoadIn("C") \/ QueryLoadOut("C")

NextBool ==
    \/ BoolProducerInsert
    \/ BoolProducerFreeSpace
    \/ BoolConsumerRemove
    \/ BoolConsumerDataSize
    \/ BoolProducerStep
    \/ BoolConsumerStep

SpecBool == Init /\ [][NextBool]_vars

\* ------- SpecMany: several producers || several consumers, no lock
\* Two threads call cb_insert and two threads call cb_remove on the one
\* buffer, overwrite left disabled by cb_init_ex.
Producers == {"P", "P2"}

Consumers == {"C", "C2"}

ManyThreads == Producers \cup Consumers

InitMany ==
    /\ size \in Capacities
    /\ buf = [i \in 0..(size - 1) |-> Uninit]
    /\ in = 0
    /\ out = 0
    /\ overwrite = FALSE
    /\ pc = [t \in ManyThreads |-> "idle"]
    /\ op = [t \in ManyThreads |-> "none"]
    /\ loc = [t \in ManyThreads |-> NoLoc]
    /\ bulk = [t \in ManyThreads |-> NoBulk]
    /\ res = [t \in ManyThreads |-> CB_SUCCESS]
    /\ itemOut = [t \in ManyThreads |-> Uninit]
    /\ inserted = <<>>
    /\ removed = <<>>
    /\ everOw = FALSE
    /\ last_error = IF size = 0
                    THEN [code |-> CB_ERROR_INVALID_SIZE, function |-> "cb_init_ex",
                          parameter |-> "bufferLength"]
                    ELSE NoError
    /\ timed = [t \in ManyThreads |-> NoTimed]
    /\ query = [t \in ManyThreads |-> NoQuery]
    /\ StatisticsOff
    /\ pre = [t \in ManyThreads |-> Snapshot(t, 0)]

\* Every producer has made its one successful call of cb_insert.
ProducersDone ==
    \A t \in Producers : op[t] = "cb_insert" /\ pc[t] = "idle" /\ res[t] = "true"

\* while(!cb_insert(&buffer, item)) yield;
\* Each producer has one value to insert and calls again until it succeeds.
ManyInsert ==
    \E t \in Producers :
        /\ op[t] = "none" \/ res[t] = "false"
        /\ CallInsertBool(t, NextItem)

\* if(cb_remove(&buffer, &item)) consumed++;
ManyRemove == \E t \in Consumers : CallRemoveBool(t)

ManyProducerStep ==
    \E t \in Producers :
        \/ InsLoadIn(t) \/ InsLoadOut(t) \/ InsLoadOw(t)
        \/ InsWrite(t) \/ InsPublish(t)

ManyConsumerStep ==
    \E t \in Consumers :
        \/ RemLoadOut(t) \/ RemLoadIn(t) \/ RemRead(t) \/ RemPublish(t)

NextMany ==
    \/ ManyInsert
    \/ ManyRemove
    \/ ManyProducerStep
    \/ ManyConsumerStep

SpecMany == InitMany /\ [][NextMany]_vars

\* ------- SpecStats: one caller, a build with CB_ENABLE_STATISTICS
\* The program initialised some other buffers before this one; each took a
\* place of the table, and this buffer took one if one was left.
InitStats ==
    /\ size \in Capacities
    /\ buf = [i \in 0..(size - 1) |-> Uninit]
    /\ in = 0
    /\ out = 0
    /\ overwrite = FALSE
    /\ pc = [t \in Threads |-> "idle"]
    /\ op = [t \in Threads |-> "none"]
    /\ loc = [t \in Threads |-> NoLoc]
    /\ bulk = [t \in Threads |-> NoBulk]
    /\ res = [t \in Threads |-> CB_SUCCESS]
    /\ itemOut = [t \in Threads |-> Uninit]
    /\ inserted = <<>>
    /\ removed = <<>>
    /\ everOw = FALSE
    /\ last_error = IF size = 0
                    THEN [code |-> CB_ERROR_INVALID_SIZE, function |-> "cb_init_ex",
                          parameter |-> "bufferLength"]
                    ELSE NoError
    /\ timed = [t \in Threads |-> NoTimed]
    /\ query = [t \in Threads |-> NoQuery]
    /\ pre = [t \in Threads |-> Snapshot(t, 0)]
    /\ statistics = TRUE
    /\ \E k \in 0..CB_MAX_BUFFERS :
           cb_instances = IF k < CB_MAX_BUFFERS
                          THEN [i \in 1..(k + 1) |-> IF i <= k THEN i ELSE ThisCb]
                          ELSE [i \in 1..k |-> i]
    /\ cb_stats = [i \in 1..Len(cb_instances) |-> NoStats]
    /\ tally = NoStats

\* The caller stops offering values after MaxCount refusals in a row of
\* resets, and stops polling the empty buffer likewise.
StatsInsert ==
    /\ NextItem <= MaxItems
    /\ tally.overflow_count < MaxCount
    /\ CallInsert("P", NextItem)

StatsRemove ==
    /\ tally.underflow_count < MaxCount
    /\ CallRemove("P")

\* The overwrite mode is chosen before the first call.
StatsSetOverwrite ==
    /\ op["P"] = "none" /\ op["C"] = "none"
    /\ SetOverwrite("P", TRUE)

\* cb_reset_stats(&buffer)
StatsReset ==
    /\ pc["P"] = "idle"
    /\ ResetStats(ThisCb)
    /\ tally' = NoStats
    /\ op' = [op EXCEPT !["P"] = "cb_reset_stats"]
    /\ UNCHANGED <<cbvars, pc, loc, bulk, res, itemOut, pre, inserted, removed,
                   everOw, last_error, timed, query, statistics>>

\* The other buffer that the program also uses: the last one it sets up.
OtherInUse == CB_MAX_BUFFERS

\* cb_init of the other buffer in use has been called: it has a place in
\* the table or found the table full.
OtherInitialised ==
    FindBuffer(OtherInUse) >= 0 \/ Len(cb_instances) = CB_MAX_BUFFERS

\* cb_init of the other buffer in use, after this buffer's
OtherInit ==
    /\ pc["P"] = "idle"
    /\ ~OtherInitialised
    /\ cb_instances' = FindOrRegister(OtherInUse).instances
    /\ cb_stats' = FindOrRegister(OtherInUse).stats
    /\ UNCHANGED <<cbvars, pc, op, loc, bulk, res, itemOut, pre, inserted,
                   removed, everOw, last_error, timed, query, statistics, tally>>

\* The operations on the other buffer that reach cb_update_stats, with what
\* they pass to it; the program resets the other buffer's statistics before
\* it uses it again.
OtherUpdate ==
    /\ pc["P"] = "idle"
    /\ OtherInitialised
    /\ GetStats(OtherInUse) = NoStats
    /\ \E is_insert \in BOOLEAN, is_success \in BOOLEAN :
           UpdateStats(OtherInUse, MaxSize - 1, is_insert, is_success)
    /\ UNCHANGED <<cbvars, pc, op, loc, bulk, res, itemOut, pre, inserted,
                   removed, everOw, last_error, timed, query, statistics, tally>>

\* cb_reset_stats on the other buffer in use
OtherReset ==
    /\ pc["P"] = "idle"
    /\ OtherInitialised
    /\ ResetStats(OtherInUse)
    /\ UNCHANGED <<cbvars, pc, op, loc, bulk, res, itemOut, pre, inserted,
                   removed, everOw, last_error, timed, query, statistics, tally>>

StatsStep ==
    \/ InsLoadIn("P") \/ InsLoadOut("P") \/ InsLoadOw("P") \/ InsEvict("P")
    \/ InsWrite("P") \/ InsPublish("P")
    \/ RemLoadOut("P") \/ RemLoadIn("P") \/ RemRead("P") \/ RemPublish("P")
    \/ StatLoadIn("P") \/ StatLoadOut("P") \/ StatUpdate("P")

NextStats ==
    \/ StatsInsert
    \/ StatsRemove
    \/ StatsSetOverwrite
    \/ StatsReset
    \/ OtherInit
    \/ OtherUpdate
    \/ OtherReset
    \/ StatsStep

SpecStats == InitStats /\ [][NextStats]_vars

\* ------- SpecPeak: one caller, statistics, one buffer that is set up again
\* This buffer is the only one of the program.
InitPeak == InitStats /\ cb_instances = <<ThisCb>>

\* cb_init(&buffer, storage, bufferLength) once more, on the used structure.
\* The caller does it once, recorded as thread C's operation.
StatsReInit ==
    /\ AllIdle
    /\ op["C"] = "none"
    /\ \E bufferLength \in Capacities : InitEx("C", FALSE, bufferLength)

NextPeak ==
    \/ StatsInsert
    \/ StatsRemove
    \/ StatsSetOverwrite
    \/ StatsReset
    \/ StatsReInit
    \/ StatsStep

SpecPeak == InitPeak /\ [][NextPeak]_vars

\* --------------------------------------------------------- type invariant
TypeOK ==
    /\ size \in Capacities
    /\ DOMAIN buf = 0..(size - 1)
    /\ \A i \in DOMAIN buf : buf[i] \in 0..MaxItems
    /\ in \in 0..MaxSize /\ out \in 0..MaxSize
    /\ overwrite \in BOOLEAN /\ everOw \in BOOLEAN
    /\ Len(inserted) <= MaxItems

\* ================================================================ properties
IsPrefix(s, q) == Len(s) <= Len(q) /\ \A k \in 1..Len(s) : s[k] = q[k]

\* The elements a quiescent buffer holds, oldest first.
Contents(b, i, o) == [k \in 1..DataSize(i, o) |-> b[(o + k - 1) % size]]

\* The last n elements of s.
LastN(s, n) == SubSeq(s, Len(s) - n + 1, Len(s))

\* The slot the next slot access of thread t reads.
ReadSlot(t) == IF pc[t] = "rem_read" THEN loc[t].current_out ELSE loc[t].pos

\* Slot s lies in the published range [out, in).
Readable(s) == \E k \in 0..(DataSize(in, out) - 1) : (out + k) % size = s

InsertPCs == {"bi_entry", "ins_load_in", "ins_load_out", "ins_load_ow",
              "ins_evict", "ins_write", "ins_publish"}

RemovePCs == {"br_entry", "rem_load_out", "rem_load_in", "rem_read", "rem_publish"}

\* C1: one producer and one consumer, overwrite never enabled, capacity >= 2:
\* in every interleaving of the index loads, slot accesses and index stores
\* the values returned by the successful removes are a prefix of the values
\* of the successful inserts.
C1_RemovedPrefixOfInserted ==
    (~everOw /\ size >= 2) => IsPrefix(removed, inserted)

\* Both sides are inside a call, after the indices have wrapped.
C1_Witness ==
    /\ ~everOw /\ size = 3 /\ Len(removed) >= 2
    /\ pc["P"] = "ins_write" /\ pc["C"] = "rem_publish"

\* C2: the producer gets MaxItems values accepted, retrying while the buffer
\* is full, and the consumer removes until the buffer is drained (overwrite
\* never enabled): whenever both sides are between calls the occupancy is the
\* number of inserted minus the number of removed values, and once a remove
\* called after the producer finished reports empty, as many values were
\* removed as were inserted and cb_dataSize() is 0.
C2_Conservation ==
    ~everOw =>
        /\ AllIdle => Len(inserted) - Len(removed) = DataSize(in, out)
        /\ ( /\ pc["C"] = "idle" /\ op["C"] = "cb_remove_ex"
             /\ pre["C"].done /\ res["C"] = CB_ERROR_BUFFER_EMPTY )
           => ( /\ Len(inserted) = MaxItems
                /\ Len(removed) = Len(inserted)
                /\ DataSize(in, out) = 0 )

C2_Witness ==
    /\ ~everOw /\ size = 2
    /\ pc["C"] = "idle" /\ op["C"] = "cb_remove_ex"
    /\ pre["C"].done /\ res["C"] = CB_ERROR_BUFFER_EMPTY
    /\ Len(removed) = MaxItems

\* C3: one producer and one consumer, overwrite disabled: the slot the
\* producer is about to write lies outside the published range [out, in) and
\* is never the slot the consumer is about to read in cb_remove_ex or
\* cb_peek_ex.
C3_NoSlotWrittenWhileRead ==
    ~overwrite =>
        \A p \in Threads :
            pc[p] = "ins_write" =>
                /\ ~Readable(loc[p].current_in)
                /\ \A c \in Threads \ {p} :
                       pc[c] \in {"rem_read", "peek_read"}
                           => ReadSlot(c) # loc[p].current_in

\* The producer is at its slot write while the consumer is at a slot read.
C3_Witness ==
    /\ ~overwrite /\ size = 3
    /\ pc["P"] = "ins_write" /\ loc["P"].current_in = 0 /\ Len(inserted) >= 2
    /\ pc["C"] = "peek_read"

\* C4: one caller, overwrite never enabled, capacity >= 2: the removed values
\* are the inserted values in insertion order, also across index wraps; between
\* calls the inserted values are the removed ones followed by the contents.
C4_SequentialFifo ==
    (~everOw /\ size >= 2) =>
        /\ IsPrefix(removed, inserted)
        /\ pc["P"] = "idle" => inserted = removed \o Contents(buf, in, out)

\* Both indices have wrapped twice.
C4_Witness ==
    /\ ~everOw /\ size = 2 /\ pc["P"] = "idle"
    /\ Len(removed) = 4 /\ removed = inserted

\* C5: capacity N >= 1, any sequence of insert, remove, bulk and overwrite
\* toggle calls: cb_dataSize() <= N - 1; and from the empty buffer, overwrite
\* disabled, no insert is refused before N - 1 were accepted and no more than
\* N - 1 are accepted.
C5_UsableCapacity ==
    size >= 1 =>
        /\ DataSize(in, out) <= size - 1
        /\ (~everOw /\ removed = <<>>) =>
               /\ Len(inserted) <= size - 1
               /\ ( /\ pc["P"] = "idle"
                    /\ op["P"] \in {"cb_insert_ex", "cb_insert_bulk_ex"}
                    /\ res["P"] = CB_ERROR_BUFFER_FULL )
                  => Len(inserted) = size - 1

\* The insert after N - 1 accepted ones is refused.
C5_Witness ==
    /\ size = 3 /\ ~everOw /\ removed = <<>>
    /\ pc["P"] = "idle" /\ op["P"] = "cb_insert_ex"
    /\ res["P"] = CB_ERROR_BUFFER_FULL /\ Len(inserted) = 2

\* The exact full/empty reports of C6: overwrite disabled, capacity >= 1,
\* between calls: cb_remove_ex reports empty exactly when cb_dataSize() was 0
\* (in = out), cb_insert_ex reports full exactly when cb_freeSpace() was 0
\* (cb_dataSize() = N - 1); the buffer is empty before the first call and
\* full after N - 1 inserts.
FullEmptyExact ==
    /\ op["P"] = "cb_remove_ex" =>
           /\ res["P"] = CB_ERROR_BUFFER_EMPTY
                  <=> DataSize(pre["P"].in, pre["P"].out) = 0
           /\ DataSize(pre["P"].in, pre["P"].out) = 0 <=> pre["P"].in = pre["P"].out
    /\ op["P"] = "cb_insert_ex" =>
           /\ res["P"] = CB_ERROR_BUFFER_FULL
                  <=> FreeSpace(pre["P"].in, pre["P"].out) = 0
           /\ FreeSpace(pre["P"].in, pre["P"].out) = 0
                  <=> DataSize(pre["P"].in, pre["P"].out) = size - 1
    /\ op["P"] = "none" => (DataSize(in, out) = 0 /\ in = out)
    /\ (~everOw /\ removed = <<>> /\ Len(inserted) = size - 1)
           => FreeSpace(in, out) = 0

\* A full buffer is not reported as empty, nor an empty one as full.
FullEmptyDistinct ==
    /\ ( /\ op["P"] = "cb_remove_ex"
         /\ DataSize(pre["P"].in, pre["P"].out) = size - 1 )
       => res["P"] # CB_ERROR_BUFFER_EMPTY
    /\ ( /\ op["P"] = "cb_insert_ex"
         /\ DataSize(pre["P"].in, pre["P"].out) = 0 )
       => res["P"] # CB_ERROR_BUFFER_FULL

\* C6 as stated: for every capacity N >= 1, overwrite disabled, between calls,
\* the full and empty reports are exact and a full buffer is never reported as
\* empty nor an empty one as full.
C6_Original ==
    (size >= 1 /\ pc["P"] = "idle" /\ ~pre["P"].overwrite) =>
        (FullEmptyExact /\ FullEmptyDistinct)

\* C6 (amended): for every capacity N >= 1, overwrite disabled, between calls,
\* the full and empty reports are exact; for N >= 2 a full buffer is never
\* reported as empty nor an empty one as full (a buffer of capacity 1 is at
\* once empty and full).
C6_FullEmptyReports ==
    (size >= 1 /\ pc["P"] = "idle" /\ ~pre["P"].overwrite) =>
        (FullEmptyExact /\ (size >= 2 => FullEmptyDistinct))

\* An insert refused on a full buffer whose indices have wrapped.
C6_Witness ==
    /\ size = 3 /\ pc["P"] = "idle" /\ ~pre["P"].overwrite
    /\ op["P"] = "cb_insert_ex" /\ res["P"] = CB_ERROR_BUFFER_FULL
    /\ pre["P"].in < pre["P"].out

\* C7: cb_insert_ex on a full buffer with overwrite disabled returns
\* CB_ERROR_BUFFER_FULL and leaves in, out, the overwrite flag and every
\* storage slot as they were; the offered element is in no slot.
C7_FullInsertChangesNothing ==
    ( /\ pc["P"] = "idle" /\ op["P"] = "cb_insert_ex" /\ size >= 1
      /\ ~pre["P"].overwrite
      /\ FreeSpace(pre["P"].in, pre["P"].out) = 0 )
    => ( /\ res["P"] = CB_ERROR_BUFFER_FULL
         /\ in = pre["P"].in
         /\ out = pre["P"].out
         /\ overwrite = pre["P"].overwrite
         /\ buf = pre["P"].buf
         /\ \A i \in DOMAIN buf : buf[i] # pre["P"].item )

C7_Witness ==
    /\ pc["P"] = "idle" /\ op["P"] = "cb_insert_ex" /\ size = 3
    /\ ~pre["P"].overwrite
    /\ FreeSpace(pre["P"].in, pre["P"].out) = 0
    /\ pre["P"].in = 0 /\ pre["P"].item = 4

\* C8: cb_remove_ex on an empty buffer returns CB_ERROR_BUFFER_EMPTY and
\* leaves the caller's output variable, in, out and the storage as they were.
C8_EmptyRemoveChangesNothing ==
    ( /\ pc["P"] = "idle" /\ op["P"] = "cb_remove_ex" /\ size >= 1
      /\ pre["P"].in = pre["P"].out )
    => ( /\ res["P"] = CB_ERROR_BUFFER_EMPTY
         /\ itemOut["P"] = pre["P"].itemOut
         /\ in = pre["P"].in
         /\ out = pre["P"].out
         /\ buf = pre["P"].buf )

\* The output variable holds a value other than the one in the slot at out.
C8_Witness ==
    /\ pc["P"] = "idle" /\ op["P"] = "cb_remove_ex" /\ size = 3
    /\ pre["P"].in = pre["P"].out /\ pre["P"].in = 2
    /\ pre["P"].itemOut # Uninit
    /\ pre["P"].itemOut # buf[out]

\* C9: one caller, overwrite enabled, capacity N >= 2, buffer full with
\* e1 .. e(N-1): cb_insert_ex(x) succeeds and the buffer then holds
\* e2 .. e(N-1), x with cb_dataSize() = N - 1 and cb_freeSpace() = 0; between
\* calls the contents are always the newest cb_dataSize() accepted values, so
\* k such inserts discard the k oldest elements.
C9_OverwriteEvictsOldest ==
    (pc["P"] = "idle" /\ size >= 2) =>
        /\ Contents(buf, in, out) = LastN(inserted, DataSize(in, out))
        /\ ( /\ op["P"] = "cb_insert_ex" /\ pre["P"].overwrite
             /\ DataSize(pre["P"].in, pre["P"].out) = size - 1 )
           => ( /\ res["P"] = CB_SUCCESS
                /\ Contents(buf, in, out)
                     = Append(Tail(Contents(pre["P"].buf, pre["P"].in, pre["P"].out)),
                              pre["P"].item)
                /\ DataSize(in, out) = size - 1
                /\ FreeSpace(in, out) = 0 )

\* The second evicting insert in a row.
C9_Witness ==
    /\ pc["P"] = "idle" /\ size = 3
    /\ op["P"] = "cb_insert_ex" /\ pre["P"].overwrite
    /\ DataSize(pre["P"].in, pre["P"].out) = 2
    /\ removed = <<>> /\ Len(inserted) = 4

\* C10: an insert operation never stores out and a remove operation never
\* stores in, for every operation and every overwrite setting.
C10_IndexOwnership ==
    [][ \A t \in Threads :
            /\ (pc[t] \in InsertPCs /\ pc'[t] # pc[t]) => out' = out
            /\ (pc[t] \in RemovePCs /\ pc'[t] # pc[t]) => in' = in ]_vars

\* C11: one producer calling cb_insert_ex and one consumer calling
\* cb_remove_ex, overwrite enabled: the slot the producer is about to write is
\* never the slot the consumer, having loaded both indices, is about to read.
C11_OverwriteNoSlotWrittenWhileRead ==
    overwrite =>
        \A p \in Threads :
            pc[p] = "ins_write" =>
                \A c \in Threads \ {p} :
                    pc[c] = "rem_read" => loc[c].current_out # loc[p].current_in

\* C12: capacity >= 1, one producer and one consumer interleaved step by
\* step, either overwrite setting: in every reachable state, the intermediate
\* states of the operations included, 0 <= in < capacity, 0 <= out < capacity
\* and the occupancy derived from in and out is < capacity.
C12_IndicesInRange ==
    size >= 1 =>
        /\ 0 <= in /\ in < size
        /\ 0 <= out /\ out < size
        /\ DataSize(in, out) < size

\* Both sides are about to store an index, the producer's wraps to 0 after an
\* eviction moved out past the slot the consumer read.
C12_Witness ==
    /\ size = 3 /\ overwrite
    /\ pc["P"] = "ins_publish" /\ loc["P"].next_in = 0
    /\ pc["C"] = "rem_publish" /\ out # loc["C"].current_out

PeekPCs == {"peek_load_out", "peek_load_in", "peek_read"}

C14_PeekChangesNothing ==
    op["P"] = "cb_peek_ex" =>
        /\ in = pre["P"].in
        /\ out = pre["P"].out
        /\ overwrite = pre["P"].overwrite
        /\ buf = pre["P"].buf
        /\ DataSize(in, out) = DataSize(pre["P"].in, pre["P"].out)
        /\ Contents(buf, in, out) = Contents(pre["P"].buf, pre["P"].in, pre["P"].out)

\* A peek at a valid offset returned on a buffer whose elements span the wrap.
C14_Witness ==
    /\ pc["P"] = "idle" /\ op["P"] = "cb_peek_ex" /\ res["P"] = CB_SUCCESS
    /\ size = 3 /\ pre["P"].in < pre["P"].out
    /\ DataSize(pre["P"].in, pre["P"].out) = 2

Min(a, b) == IF a <= b THEN a ELSE b

\* The buffer after cb_insert_ex, overwrite disabled, was called on the
\* elements of items in order until the first call that was refused; n counts
\* the calls that returned CB_SUCCESS.
RECURSIVE InsertEach(_, _, _, _)
InsertEach(b, i, o, items) ==
    IF items = <<>> \/ (i + 1) % size = o
    THEN [buf |-> b, in |-> i, out |-> o, n |-> 0]
    ELSE LET r == InsertEach([b EXCEPT ![i] = Head(items)], (i + 1) % size, o,
                             Tail(items))
         IN  [r EXCEPT !.n = @ + 1]

\* C15: overwrite disabled: cb_insert_bulk_ex(items, count) returns the count
\* and leaves the buffer state that cb_insert_ex called on items[0], items[1],
\* ... until the first failure produces: the count is min(count, free space
\* before the call) and that prefix of items is appended in order.
C15_BulkInsertIsRepeatedInsert ==
    ( /\ pc["P"] = "idle" /\ op["P"] = "cb_insert_bulk_ex" /\ size >= 1
      /\ ~pre["P"].overwrite )
    => LET b == bulk["P"]
           ref == InsertEach(pre["P"].buf, pre["P"].in, pre["P"].out, b.items)
           n == Min(b.count, FreeSpace(pre["P"].in, pre["P"].out))
       IN  /\ b.n = ref.n
           /\ buf = ref.buf /\ in = ref.in /\ out = ref.out
           /\ b.n = n
           /\ Contents(buf, in, out)
                = Contents(pre["P"].buf, pre["P"].in, pre["P"].out)
                    \o SubSeq(b.items, 1, n)

\* More items were offered than there was room for, across the index wrap.
C15_Witness ==
    /\ pc["P"] = "idle" /\ op["P"] = "cb_insert_bulk_ex" /\ size = 3
    /\ ~pre["P"].overwrite
    /\ bulk["P"].count = 2 /\ bulk["P"].n = 1
    /\ pre["P"].in = 2 /\ pre["P"].out = 1

\* C16: overwrite enabled during the whole call, capacity N >= 2, count >= 1:
\* cb_insert_bulk_ex inserts all count items, also when count > N - 1, and the
\* buffer then holds the last min(N - 1, previous occupancy + count) elements
\* of the previous contents followed by the items.
C16_BulkInsertOverwrites ==
    ( /\ pc["P"] = "idle" /\ op["P"] = "cb_insert_bulk_ex" /\ size >= 2
      /\ pre["P"].overwrite /\ bulk["P"].count >= 1 )
    => LET b == bulk["P"]
           old == Contents(pre["P"].buf, pre["P"].in, pre["P"].out)
       IN  /\ b.n = b.count
           /\ res["P"] = CB_SUCCESS
           /\ Contents(buf, in, out)
                = LastN(old \o b.items, Min(size - 1, Len(old) + b.count))

\* More items than the usable capacity were inserted into a full buffer.
C16_Witness ==
    /\ pc["P"] = "idle" /\ op["P"] = "cb_insert_bulk_ex" /\ size = 2
    /\ pre["P"].overwrite /\ bulk["P"].count = 2
    /\ DataSize(pre["P"].in, pre["P"].out) = 1

\* C17: one caller, cb_remove_bulk_ex(items, count) with count >= 1 on a
\* buffer holding k elements returns min(count, k), stores the oldest
\* min(count, k) elements in items[0..] in FIFO order, leaves the items beyond
\* untouched and leaves cb_dataSize() = k - min(count, k).
C17_BulkRemoveOldest ==
    ( /\ pc["P"] = "idle" /\ op["P"] = "cb_remove_bulk_ex" /\ size >= 1
      /\ bulk["P"].count >= 1 )
    => LET b == bulk["P"]
           old == Contents(pre["P"].buf, pre["P"].in, pre["P"].out)
           n == Min(b.count, Len(old))
       IN  /\ b.n = n
           /\ SubSeq(b.items, 1, n) = SubSeq(old, 1, n)
           /\ \A j \in (n + 1)..b.count : b.items[j] = Uninit
           /\ DataSize(in, out) = Len(old) - n
           /\ Contents(buf, in, out) = SubSeq(old, n + 1, Len(old))

\* Two elements were asked for and one was there, in the last slot.
C17_Witness ==
    /\ pc["P"] = "idle" /\ op["P"] = "cb_remove_bulk_ex" /\ size = 3
    /\ bulk["P"].count = 2 /\ bulk["P"].n = 1
    /\ pre["P"].out = 2 /\ bulk["P"].items[2] = Uninit

\* The failure on which the timed operation of thread t retries.
Blocked(t) ==
    IF op[t] \in {"cb_insert_timeout", "cb_insert_timeout_ex"}
    THEN CB_ERROR_BUFFER_FULL
    ELSE CB_ERROR_BUFFER_EMPTY

AttemptPCs == {"ins_load_in", "ins_load_out", "ins_load_ow", "ins_evict",
               "ins_write", "ins_publish",
               "rem_load_out", "rem_load_in", "rem_read", "rem_publish"}

\* C18: a completed cb_insert_timeout_ex (resp. cb_remove_timeout_ex) call
\* that made at least one attempt: it returned CB_ERROR_TIMEOUT exactly when
\* timeout_ms > 0 and every attempt failed with CB_ERROR_BUFFER_FULL (resp.
\* CB_ERROR_BUFFER_EMPTY); every attempt before the last one failed that way,
\* so the first success and the first other failure end the call, and that
\* result is returned with no sleep after it; CB_ERROR_BUFFER_FULL (resp.
\* EMPTY) is returned only with timeout_ms = 0.  (A call with a null output
\* pointer makes no attempt and returns CB_ERROR_NULL_POINTER.)
C18_TimedResult ==
    \A t \in Threads :
        (pc[t] = "idle" /\ op[t] \in {"cb_insert_timeout_ex", "cb_remove_timeout_ex"})
        => LET a == timed[t].attempts
               n == Len(a)
           IN  IF n = 0
               THEN timed[t].itemOutNull /\ res[t] = CB_ERROR_NULL_POINTER
               ELSE /\ res[t] = CB_ERROR_TIMEOUT
                        <=> ( /\ timed[t].timeout_ms > 0
                              /\ \A i \in 1..n : a[i] = Blocked(t) )
                    /\ \A i \in 1..(n - 1) : a[i] = Blocked(t)
                    /\ a[n] # Blocked(t) => res[t] = a[n]
                    /\ timed[t].elapsed_ms = n - 1
                    /\ res[t] = Blocked(t) => timed[t].timeout_ms = CB_NO_WAIT

\* A timed remove succeeded on its second attempt.
C18_Witness ==
    /\ pc["C"] = "idle" /\ op["C"] = "cb_remove_timeout_ex"
    /\ timed["C"].attempts = <<CB_ERROR_BUFFER_EMPTY, CB_SUCCESS>>
    /\ res["C"] = CB_SUCCESS

\* A measure of what a timed operation of thread t has left to do.
TimedRank(t) ==
    (timed[t].timeout_ms - timed[t].elapsed_ms) * 9
    + CASE pc[t] = "idle" -> 0
        [] pc[t] \in {"timed_sleep", "timed_expire"} -> 1
        [] pc[t] \in {"ins_publish", "rem_publish"} -> 2
        [] pc[t] \in {"ins_write", "rem_read"} -> 3
        [] pc[t] \in {"ins_evict", "rem_load_in"} -> 4
        [] pc[t] \in {"ins_load_ow", "rem_load_out"} -> 5
        [] pc[t] = "ins_load_out" -> 6
        [] pc[t] = "ins_load_in" -> 7
        [] OTHER -> 8

\* The attempts of the timed operation of thread t begun so far.
AttemptsBegun(t) ==
    Len(timed[t].attempts) + (IF pc[t] \in AttemptPCs THEN 1 ELSE 0)

\* C19: a call of one of the four timed operations with budget timeout_ms
\* begins at most 1 + timeout_ms attempts, with one sleep interval before each
\* attempt but the first, and every step of the call, whatever the other side
\* does or does not do in between, brings it nearer to its return: a measure
\* bounded by 9 * timeout_ms + 8 decreases on each of its steps.
C19_TimedTerminates ==
    /\ [](\A t \in Threads :
            op[t] \in TimedOps =>
                /\ AttemptsBegun(t) <= 1 + timed[t].timeout_ms
                /\ AttemptsBegun(t) >= 1 => timed[t].elapsed_ms = AttemptsBegun(t) - 1
                /\ TimedRank(t) <= 9 * timed[t].timeout_ms + 8)
    /\ [][\A t \in Threads :
            (op[t] \in TimedOps /\ pc[t] # "idle" /\ pc'[t] # pc[t])
                => TimedRank(t)' < TimedRank(t)]_vars

\* A timed insert used up its budget while the consumer stood still in the
\* middle of a remove.
C19_Witness ==
    /\ pc["P"] = "idle" /\ op["P"] = "cb_insert_timeout" /\ res["P"] = "false"
    /\ timed["P"].timeout_ms = 2 /\ Len(timed["P"].attempts) = 3
    /\ pc["C"] = "rem_read"

\* The locals of thread t.
Locals(t) == <<pc[t], loc[t], bulk[t], timed[t], query[t]>>

\* A measure of what the non-timed operation of thread t has left to do:
\* seven steps for each element a bulk operation has not yet transferred and
\* the steps left in the current cb_insert_ex, cb_remove_ex, cb_peek_ex or
\* query.
OpRank(t) ==
    (IF op[t] \in {"cb_insert_bulk_ex", "cb_remove_bulk_ex"}
     THEN (bulk[t].count - bulk[t].n) * 7 ELSE 0)
    + CASE pc[t] = "idle" -> 0
        [] pc[t] \in {"ins_publish", "rem_publish", "peek_read", "q_load_out"} -> 1
        [] pc[t] \in {"ins_write", "rem_read", "peek_load_in", "q_load_in"} -> 2
        [] pc[t] \in {"ins_evict", "rem_load_in", "peek_load_out"} -> 3
        [] pc[t] \in {"ins_load_ow", "rem_load_out"} -> 4
        [] pc[t] = "ins_load_out" -> 5
        [] pc[t] = "ins_load_in" -> 6
        [] OTHER -> 7

\* C20: a running non-timed operation (cb_insert_ex, cb_remove_ex, cb_peek_ex,
\* cb_freeSpace, cb_dataSize, cb_sanity_check, cb_insert_bulk_ex and
\* cb_remove_bulk_ex with count <= MaxCount) always has a step it can take,
\* wherever the other side stands, and each of its steps decreases a measure
\* of its own locals that is at most 7 * count + 7: it returns after a bounded
\* number of its own steps and never waits for the other side.
C20_NonTimedCompletes ==
    /\ [](\A t \in Threads :
            (op[t] \notin TimedOps /\ pc[t] # "idle") =>
                /\ ENABLED OpStep(t)
                /\ OpRank(t) <= 7 * MaxCount + 7)
    /\ [][\A t \in Threads :
            (op[t] \notin TimedOps /\ pc[t] # "idle" /\ Locals(t)' # Locals(t))
                => OpRank(t)' < OpRank(t)]_vars

\* A bulk insert of more elements than there was room for returned while the
\* consumer stood still in the middle of a remove.
C20_Witness ==
    /\ pc["P"] = "idle" /\ op["P"] = "cb_insert_bulk_ex"
    /\ bulk["P"].count = 2 /\ bulk["P"].n = 1 /\ ~overwrite
    /\ pc["C"] = "rem_read"

\* All MaxItems values were inserted and removed and the buffer is empty.
AllDelivered ==
    /\ Len(inserted) = MaxItems
    /\ removed = inserted
    /\ in = out /\ DataSize(in, out) = 0

\* C21: both threads scheduled with weak fairness, capacity >= 2, overwrite
\* disabled: the producer retrying cb_insert_ex until each of its MaxItems
\* values is accepted and the consumer calling cb_remove_ex again and again
\* eventually reach a state in which all values were inserted and removed
\* and the buffer is empty.
C21_EventuallyDelivered == (size >= 2) => <>AllDelivered

\* All values were delivered through a buffer of capacity 2.
C21_Witness == size = 2 /\ AllDelivered /\ AllIdle

\* What the last completed operation of thread t must have returned on a
\* buffer of capacity 0.
ZeroResultOK(t) ==
    CASE op[t] \in {"cb_insert_ex", "cb_insert_bulk_ex", "cb_insert_timeout_ex",
                    "cb_remove_ex", "cb_remove_bulk_ex"}
             -> res[t] = CB_ERROR_INVALID_SIZE
      [] op[t] = "cb_remove_timeout_ex"
             -> res[t] = IF timed[t].itemOutNull THEN CB_ERROR_NULL_POINTER
                         ELSE CB_ERROR_INVALID_SIZE
      [] op[t] \in {"cb_insert_timeout", "cb_remove_timeout"}
             -> res[t] = "false"
      [] op[t] = "cb_peek_ex"
             -> res[t] \in {CB_ERROR_INVALID_SIZE, CB_ERROR_INVALID_OFFSET}
      [] op[t] \in {"cb_freeSpace", "cb_dataSize"}
             -> query[t].value = 0
      [] op[t] = "cb_sanity_check"
             -> ~query[t].valid
      [] OTHER -> TRUE

C23_UnboundInsertRefused ==
    ~StorageBound \/ size = 0 =>
        /\ pc["P"] # "crashed"
        /\ op["P"] = "cb_insert_ex" =>
               /\ in = pre["P"].in /\ out = pre["P"].out /\ buf = pre["P"].buf
               /\ pc["P"] = "idle" => res["P"] = CB_ERROR_NULL_POINTER

\* The condition under which cb_sanity_check called by thread t is to return
\* true, on the buffer as it was at the call.
SanityExpected(t) ==
    /\ StorageBound
    /\ size # 0
    /\ pre[t].in < size
    /\ pre[t].out < size
    /\ DataSize(pre[t].in, pre[t].out) < size

\* C24: cb_sanity_check returns true exactly when the storage pointer is
\* non-null, the capacity is nonzero, both indices are < capacity and the
\* derived occupancy is < capacity; hence true after every completed public
\* operation on a buffer initialised with capacity >= 1 and false once an
\* index lies outside [0, capacity); and no step of it modifies the buffer.
C24_SanityCheck ==
    /\ [](op["P"] = "cb_sanity_check" /\ pc["P"] = "idle" =>
            /\ query["P"].valid = SanityExpected("P")
            /\ (size >= 1 /\ Intact => query["P"].valid)
            /\ (pre["P"].in >= size \/ pre["P"].out >= size => ~query["P"].valid))
    /\ [][op'["P"] = "cb_sanity_check" /\ (pc["P"] # "idle" \/ pc'["P"] # "idle")
              => UNCHANGED cbvars]_vars

\* cb_sanity_check returned true on a buffer that wrapped around in overwrite
\* mode, and later false after the read index was set to the capacity.
C24_Witness ==
    /\ op["P"] = "cb_sanity_check" /\ pc["P"] = "idle"
    /\ ~query["P"].valid
    /\ size = 3 /\ StorageBound /\ everOw /\ Len(inserted) >= 3
    /\ pre["P"].out = size /\ pre["P"].in < size

\* C25: cb_init_ex with non-null storage and capacity N >= 1 returns Success
\* and leaves in == out == 0, overwrite disabled, cb_dataSize() == 0 and
\* cb_freeSpace() == N - 1, whatever the structure held before.
C25_InitResets ==
    [][\A storageNull \in BOOLEAN : \A N \in 0..MaxSize :
           InitEx("P", storageNull, N) /\ ~storageNull /\ N >= 1 =>
               /\ res'["P"] = CB_SUCCESS
               /\ size' = N /\ StorageBound'
               /\ in' = 0 /\ out' = 0
               /\ ~overwrite'
               /\ DataSize(in, out)' = 0
               /\ FreeSpace(in, out)' = N - 1]_vars

\* cb_init_ex succeeded on a buffer that was non-empty, wrapped around and in
\* overwrite mode.
C25_Witness ==
    /\ op["P"] = "cb_init_ex" /\ res["P"] = CB_SUCCESS
    /\ pre["P"].overwrite
    /\ pre["P"].in < pre["P"].out
    /\ DOMAIN pre["P"].buf # DOMAIN buf

\* cb_freeSpace and cb_dataSize were the last two operations, in either order.
BothQueried ==
    /\ AllIdle
    /\ op["P"] = "cb_freeSpace"
    /\ op["C"] = "cb_dataSize"
    /\ pre["P"].in = in /\ pre["P"].out = out
    /\ pre["C"].in = in /\ pre["C"].out = out

\* C26: in every quiescent state of a buffer with capacity N >= 1, reached by
\* any sequence of operations with either overwrite setting, the values
\* returned by cb_dataSize() and cb_freeSpace() add up to N - 1.
C26_DataPlusFreeIsCapacity ==
    size >= 1 =>
        /\ BothQueried => query["C"].value + query["P"].value = size - 1
        /\ AllIdle => DataSize(in, out) + FreeSpace(in, out) = size - 1

\* Both queries ran on a full buffer that had wrapped around in overwrite mode.
C26_Witness ==
    /\ BothQueried
    /\ size = 3 /\ overwrite /\ in < out
    /\ query["C"].value = 2 /\ query["P"].value = 0

\* The five bool functions.
BoolSurface == BoolOps \cup {"cb_insert_timeout", "cb_remove_timeout"}

\* The result code of a result-code operation of the family of o, called by
\* the only caller with budget timeout_ms (0 for the untimed operations) on
\* the buffer s; nullOut: the output pointer is null.
SoloCode(o, s, offset, timeout_ms, nullOut) ==
    LET k == DataSize(s.in, s.out)
        blocked(code) == IF timeout_ms > 0 THEN CB_ERROR_TIMEOUT ELSE code
    IN  IF o \in RemoveFamily /\ nullOut THEN CB_ERROR_NULL_POINTER
        ELSE IF size = 0 THEN CB_ERROR_INVALID_SIZE
        ELSE IF o \in InsertFamily
        THEN (IF k = size - 1 /\ ~s.overwrite
              THEN blocked(CB_ERROR_BUFFER_FULL) ELSE CB_SUCCESS)
        ELSE IF o \in RemoveFamily
        THEN (IF k = 0 THEN blocked(CB_ERROR_BUFFER_EMPTY) ELSE CB_SUCCESS)
        ELSE (IF offset >= k THEN CB_ERROR_INVALID_OFFSET ELSE CB_SUCCESS)

\* in, out, storage and output value after that operation.
SoloEffect(o, s, offset, code) ==
    IF code # CB_SUCCESS
    THEN [in |-> s.in, out |-> s.out, buf |-> s.buf, itemOut |-> s.itemOut]
    ELSE IF o \in InsertFamily
    THEN [in |-> (s.in + 1) % size,
          out |-> IF DataSize(s.in, s.out) = size - 1
                  THEN (s.out + 1) % size ELSE s.out,
          buf |-> [s.buf EXCEPT ![s.in] = s.item],
          itemOut |-> s.itemOut]
    ELSE IF o \in RemoveFamily
    THEN [in |-> s.in, out |-> (s.out + 1) % size, buf |-> s.buf,
          itemOut |-> s.buf[s.out]]
    ELSE [in |-> s.in, out |-> s.out, buf |-> s.buf,
          itemOut |-> s.buf[(s.out + offset) % size]]

\* C27: one caller: on the step on which an operation of either surface
\* returns, a bool function returns true exactly when the result-code
\* function of its family returns Success for the same buffer state and
\* arguments, the result-code function returns that code, and in, out, the
\* storage and the output value are those of the result-code function.
C27_BoolMatchesResultCode ==
    [][ (pc["P"] # "idle" /\ pc'["P"] = "idle"
         /\ op["P"] \in InsertFamily \cup RemoveFamily \cup PeekFamily) =>
            LET o == op["P"]
                code == SoloCode(o, pre["P"], loc["P"].offset,
                                 IF o \in TimedOps THEN timed["P"].timeout_ms
                                 ELSE CB_NO_WAIT,
                                 o \in TimedOps /\ timed["P"].itemOutNull)
                e == SoloEffect(o, pre["P"], loc["P"].offset, code)
            IN  /\ o \in BoolSurface =>
                       res'["P"] = IF code = CB_SUCCESS THEN "true" ELSE "false"
                /\ o \notin BoolSurface => res'["P"] = code
                /\ in' = e.in /\ out' = e.out /\ buf' = e.buf
                /\ itemOut'["P"] = e.itemOut ]_vars

\* cb_insert_timeout returned false after its whole budget on a full buffer,
\* and cb_remove returned true before.
C27_Witness ==
    /\ pc["P"] = "idle" /\ op["P"] = "cb_insert_timeout" /\ res["P"] = "false"
    /\ Len(timed["P"].attempts) = MaxTimeout + 1
    /\ size >= 2 /\ removed # <<>>

\* The last operation of the caller was a bulk operation.
BulkDone == pc["P"] = "idle" /\ op["P"] \in {"cb_insert_bulk_ex", "cb_remove_bulk_ex"}

\* Nothing could be transferred by the bulk operation because the buffer was
\* full (overwrite disabled) resp. empty at the call.
BulkBlocked ==
    LET k == DataSize(pre["P"].in, pre["P"].out)
    IN  IF op["P"] = "cb_insert_bulk_ex"
        THEN k = size - 1 /\ ~pre["P"].overwrite
        ELSE k = 0

BulkBlockedCode ==
    IF op["P"] = "cb_insert_bulk_ex" THEN CB_ERROR_BUFFER_FULL
    ELSE CB_ERROR_BUFFER_EMPTY

\* The buffer is as it was when the bulk operation was called.
BulkNoChange == in = pre["P"].in /\ out = pre["P"].out /\ buf = pre["P"].buf

\* Success whenever at least one element was transferred; BufferFull resp.
\* BufferEmpty with a count of 0 when nothing could be transferred for that
\* reason.
BulkTransferCodes ==
    BulkDone =>
        /\ bulk["P"].n > 0 => res["P"] = CB_SUCCESS
        /\ (size >= 1 /\ bulk["P"].count >= 1 /\ BulkBlocked) =>
               res["P"] = BulkBlockedCode /\ bulk["P"].n = 0
        /\ res["P"] = BulkBlockedCode =>
               bulk["P"].n = 0 /\ bulk["P"].count >= 1 /\ BulkBlocked

\* C28 as stated: the bulk operations return Success whenever at least one
\* element was transferred, BufferFull resp. BufferEmpty with a count of 0
\* when nothing could be transferred for that reason, and InvalidCount with a
\* count of 0 and no change to the buffer whenever count == 0.
C28_BulkZeroCountAnyCapacity ==
    /\ BulkTransferCodes
    /\ (BulkDone /\ bulk["P"].count = 0) =>
           res["P"] = CB_ERROR_INVALID_COUNT /\ bulk["P"].n = 0 /\ BulkNoChange

\* C28 amended: as above, with InvalidCount for count == 0 on a buffer of
\* capacity >= 1; on a buffer of capacity 0 the result is InvalidSize for
\* every count.
C28_BulkResultCodes ==
    /\ BulkTransferCodes
    /\ (BulkDone /\ bulk["P"].count = 0 /\ size >= 1) =>
           res["P"] = CB_ERROR_INVALID_COUNT /\ bulk["P"].n = 0 /\ BulkNoChange
    /\ (BulkDone /\ size = 0) =>
           res["P"] = CB_ERROR_INVALID_SIZE /\ bulk["P"].n = 0 /\ BulkNoChange

\* cb_remove_bulk_ex with count 0 returned InvalidCount on a non-empty buffer
\* after a bulk insert had stored fewer items than offered.
C28_Witness ==
    /\ BulkDone /\ op["P"] = "cb_remove_bulk_ex"
    /\ bulk["P"].count = 0 /\ res["P"] = CB_ERROR_INVALID_COUNT
    /\ size = 3 /\ DataSize(in, out) = 2 /\ ~overwrite
    /\ Len(inserted) = 2

\* The budget of the last timed operation of thread t expired in that call:
\* it had a budget and its last attempt was refused for a full resp. empty
\* buffer.
Expired(t) ==
    /\ timed[t].timeout_ms # CB_NO_WAIT
    /\ timed[t].attempts # <<>>
    /\ timed[t].attempts[Len(timed[t].attempts)] = Blocked(t)

\* C29: whenever cb_insert_timeout or cb_remove_timeout has returned false,
\* the last-error record has the code Timeout, with the name of that function
\* and the parameter "timeout_ms", if and only if the budget expired in that
\* call, whatever calls were made before.
C29_LastErrorIsReason ==
    ( /\ pc["P"] = "idle"
      /\ op["P"] \in {"cb_insert_timeout", "cb_remove_timeout"}
      /\ res["P"] = "false" )
    => /\ (last_error.code = CB_ERROR_TIMEOUT) <=> Expired("P")
       /\ Expired("P") => /\ last_error.function = op["P"]
                          /\ last_error.parameter = "timeout_ms"

\* C30: capacity 1, after initialisation, any sequence of cb_insert and
\* cb_remove calls of the two sides: the buffer never holds an item,
\* cb_freeSpace() and cb_dataSize() are 0 in every state (as computed from in
\* and out and as returned by every completed query), every cb_insert returns
\* false and every cb_remove returns false.
C30_CapacityOneHoldsNothing ==
    size = 1 =>
        /\ in = 0 /\ out = 0
        /\ buf[0] = Uninit
        /\ inserted = <<>> /\ removed = <<>>
        /\ DataSize(in, out) = 0 /\ FreeSpace(in, out) = 0
        /\ \A t \in Threads :
               /\ itemOut[t] = Uninit
               /\ pc[t] = "idle" =>
                      /\ op[t] \in {"cb_insert", "cb_remove"} => res[t] = "false"
                      /\ op[t] \in {"cb_freeSpace", "cb_dataSize"} =>
                             query[t].value = 0

\* On the capacity-1 buffer cb_insert and cb_remove have both failed.
C30_Witness ==
    /\ size = 1 /\ AllIdle
    /\ op["P"] = "cb_insert" /\ res["P"] = "false"
    /\ op["C"] = "cb_remove" /\ res["C"] = "false"

\* ----------------------------------------------------------------- C31
\* All producers have made their inserts, no call is in progress and a
\* draining cb_remove would find the buffer empty.
ManyDrained ==
    /\ ProducersDone
    /\ \A t \in ManyThreads : pc[t] = "idle"
    /\ IsEmpty(out, in)

\* C31: with several threads calling cb_insert and several threads calling
\* cb_remove without a lock (overwrite disabled), once all producers have
\* finished and the buffer has been drained, the number of successful removes
\* equals the number of successful inserts and cb_dataSize() is 0.
C31_ManyThreadsConserve ==
    ManyDrained => /\ Len(removed) = Len(inserted)
                   /\ DataSize(in, out) = 0

\* ----------------------------------------------------------------- C32
\* The four event counters of a statistics record.
Counters(s) ==
    <<s.total_inserts, s.total_removes, s.overflow_count, s.underflow_count>>

\* C32 as stated: with statistics enabled and single-threaded use, for every
\* buffer initialised with cb_init, cb_get_stats reports since the last
\* cb_reset_stats as total_inserts the number of successful inserts, as
\* total_removes the number of successful removes, as overflow_count the
\* number of inserts rejected with BufferFull and as underflow_count the
\* number of removes rejected with BufferEmpty.
C32_StatsCountEveryBuffer == Counters(GetStats(ThisCb)) = Counters(tally)

\* C32 as amended: the same for every buffer that found a place in the table
\* of CB_MAX_BUFFERS buffers at its cb_init (a buffer that found none reads
\* all counters as 0), and a step that is no operation on that buffer leaves
\* what cb_get_stats reports for it unchanged.
C32_StatsCountRegistered ==
    /\ [](FindBuffer(ThisCb) >= 0
            => Counters(GetStats(ThisCb)) = Counters(tally))
    /\ [](FindBuffer(ThisCb) < 0 => GetStats(ThisCb) = NoStats)
    /\ [][UNCHANGED <<pc, tally>> => GetStats(ThisCb)' = GetStats(ThisCb)]_vars

\* This buffer has seen each of the four events since its reset while
\* another buffer has counters of its own.
C32_Witness ==
    /\ FindBuffer(ThisCb) >= 0
    /\ pc["P"] = "idle"
    /\ tally.total_inserts >= 2
    /\ tally.total_removes >= 1
    /\ tally.overflow_count >= 1
    /\ tally.underflow_count >= 1
    /\ op["P"] \in {"cb_insert_ex", "cb_remove_ex"}
    /\ GetStats(OtherInUse) # NoStats
    /\ Len(inserted) > tally.total_inserts

\* ----------------------------------------------------------------- C33
\* C33: with statistics enabled, peak_usage of a buffer never decreases
\* between two cb_reset_stats calls, never exceeds capacity - 1, and in
\* single-threaded use equals the maximum number of items the buffer held
\* after any successful insert since the last reset.
C33_PeakUsage ==
    /\ [][tally' # NoStats
            => GetStats(ThisCb)'.peak_usage >= GetStats(ThisCb).peak_usage]_vars
    /\ [](size >= 1 => GetStats(ThisCb).peak_usage <= size - 1)
    /\ [](GetStats(ThisCb).peak_usage = tally.peak_usage)

\* C34: one producer and one consumer, overwrite never enabled: the write
\* index changes only by the index store of an insert whose element is already
\* in storage[in], and the read index only by the index store of a remove whose
\* element is already copied out of storage[out]; no such step touches the
\* storage. So in every state the k-th slot of the published range [out, in)
\* holds the value of the k-th successful insert not yet removed.
C34_WrittenBeforePublished ==
    /\ [](~everOw =>
            \A k \in 0..(DataSize(in, out) - 1) :
                /\ Len(removed) + k + 1 <= Len(inserted)
                /\ buf[(out + k) % size] = inserted[Len(removed) + k + 1])
    /\ [][~everOw =>
            /\ in' # in =>
                   \E t \in Threads :
                       /\ pc[t] = "ins_publish" /\ in = loc[t].current_in
                       /\ buf[in] = loc[t].item /\ buf' = buf
                       /\ inserted' = Append(inserted, buf[in])
            /\ out' # out =>
                   \E t \in Threads :
                       /\ pc[t] = "rem_publish" /\ out = loc[t].current_out
                       /\ itemOut[t] = buf[out] /\ buf' = buf
                       /\ removed' = Append(removed, itemOut[t])]_vars

\* The published range wraps around the end of the storage while the consumer
\* is about to store the read index.
C34_Witness ==
    /\ ~everOw /\ size = 3 /\ in < out /\ DataSize(in, out) = 2
    /\ pc["C"] = "rem_publish" /\ Len(removed) >= 2

\* The values of s are values offered so far, each at most once and in the
\* order in which they were offered (the values offered are 1, 2, ...).
InOfferedOrder(s) ==
    /\ \A i \in 1..Len(s) : s[i] \in 1..NextItem
    /\ \A i, j \in 1..Len(s) : i < j => s[i] < s[j]

\* C35: overwrite enabled before the first call, one producer and one
\* consumer in any interleaving: the values returned by the successful
\* removes are inserted values, each delivered at most once and none after a
\* value inserted later; and an index store of a remove moves the read index
\* one slot forward from where it stands, never back over evicted elements.
C35_OverwriteDeliversInOrder ==
    /\ [](overwrite => InOfferedOrder(removed))
    /\ [][(overwrite /\ out' # out /\ \E t \in Threads : pc[t] = "rem_publish"
                                                        /\ pc'[t] # "rem_publish")
             => out' = NextIndex(out)]_vars

\* C36: the consumer calls cb_peek_ex(offset) while the producer inserts,
\* overwrite never enabled, r values removed so far: the step on which the
\* peek returns CB_SUCCESS yields the (r + offset + 1)-th successfully inserted
\* value, and a peek returns CB_ERROR_INVALID_OFFSET only on its load of in and
\* only when fewer than offset + 1 elements are published at that load.
C36_ConcurrentPeek ==
    [][ (~everOw /\ pc["C"] \in PeekPCs /\ pc'["C"] = "idle") =>
            LET offset == loc["C"].offset
                r == Len(removed)
            IN  /\ res'["C"] = CB_SUCCESS =>
                       /\ r + offset + 1 <= Len(inserted)
                       /\ itemOut'["C"] = inserted[r + offset + 1]
                /\ res'["C"] = CB_ERROR_INVALID_OFFSET =>
                       /\ pc["C"] = "peek_load_in"
                       /\ Len(inserted) - r < offset + 1 ]_vars

\* After two removes a peek returned the only element left while the producer
\* is about to publish the next one across the index wrap.
C36_Witness ==
    /\ ~everOw /\ size = 3 /\ Len(removed) = 2 /\ Len(inserted) = 3
    /\ pc["C"] = "idle" /\ op["C"] = "cb_peek_ex" /\ res["C"] = CB_SUCCESS
    /\ itemOut["C"] = inserted[3]
    /\ pc["P"] = "ins_publish" /\ loc["P"].next_in = 1

\* C37: one producer calling cb_insert and cb_freeSpace, one consumer calling
\* cb_remove and cb_dataSize, overwrite disabled, any interleaving: a value k
\* returned by cb_freeSpace is at most the free space as long as the producer
\* makes no call, and no cb_insert of the producer is refused before k of its
\* inserts succeeded since that query; likewise k returned by cb_dataSize is at
\* most the data size as long as the consumer makes no call, and no cb_remove
\* of the consumer is refused before k of its removes succeeded.
C37_QueriesAreLowerBounds ==
    /\ []( /\ (pc["P"] = "idle" /\ op["P"] = "cb_freeSpace")
                => query["P"].value <= FreeSpace(in, out)
           /\ (pc["C"] = "idle" /\ op["C"] = "cb_dataSize")
                => query["C"].value <= DataSize(in, out) )
    /\ [][ /\ (op["P"] = "cb_insert" /\ pc["P"] # "idle" /\ pc'["P"] = "idle"
               /\ res'["P"] = "false")
                => Len(inserted) - query["P"].before >= query["P"].value
           /\ (op["C"] = "cb_remove" /\ pc["C"] # "idle" /\ pc'["C"] = "idle"
               /\ res'["C"] = "false")
                => Len(removed) - query["C"].before >= query["C"].value ]_vars

\* The producer read a free space of 2 before its third insert and had both
\* following inserts accepted, the consumer removing in between; the consumer
\* read a data size of 2 and had both following removes succeed.
C37_Witness ==
    /\ size = 3
    /\ pc["P"] = "idle" /\ op["P"] = "cb_insert" /\ res["P"] = "true"
    /\ query["P"].value = 2 /\ query["P"].before = 2 /\ Len(inserted) = 4
    /\ pc["C"] = "idle" /\ op["C"] = "cb_remove" /\ res["C"] = "true"
    /\ query["C"].value = 2 /\ Len(removed) - query["C"].before = 2

\* C38: one caller, capacity >= 1, overwrite enabled or disabled: when
\* cb_insert has returned true the buffer holds at least one element and its
\* newest element, the one cb_peek yields at offset cb_dataSize() - 1, is the
\* value inserted.
C38_SuccessStoresNewest ==
    ( /\ size >= 1 /\ AllIdle
      /\ op["P"] = "cb_insert" /\ res["P"] = "true" )
    => /\ DataSize(in, out) >= 1
       /\ Contents(buf, in, out)[DataSize(in, out)] = pre["P"].item

InsertTimedOps == {"cb_insert_timeout", "cb_insert_timeout_ex"}

RemoveTimedOps == {"cb_remove_timeout", "cb_remove_timeout_ex"}

\* The caller of a timed operation is told that it succeeded.
TimedOk(r) == r \in {CB_SUCCESS, "true"}

\* How often value v was stored by an insert that reported success.
TimesInserted(v) == Cardinality({i \in 1..Len(inserted) : inserted[i] = v})

\* C39: a call of a timed insert or remove while the other side makes plain
\* calls, in any interleaving. Of the steps of the call only the eviction, the
\* slot write and the index store of an attempt change in, out or the
\* storage; the index store ends the call, which reports success exactly then.
\* So a timed insert that reported success has written its item to one slot and
\* moved in by one, and one that failed or is still trying has left in and the
\* storage as they were at the call; a timed remove has moved out by one if it
\* reported success and not at all otherwise (out compared while inserts never
\* evict).
C39_TimedStoresOnce ==
    /\ []( /\ op["P"] \in InsertTimedOps =>
                LET item == pre["P"].item
                    written == [pre["P"].buf EXCEPT ![pre["P"].in] = item]
                IN  IF pc["P"] = "idle" /\ TimedOk(res["P"])
                    THEN /\ in = (pre["P"].in + 1) % size
                         /\ buf = written
                         /\ TimesInserted(item) = 1
                    ELSE /\ in = pre["P"].in
                         /\ buf = IF pc["P"] = "ins_publish" THEN written
                                  ELSE pre["P"].buf
                         /\ TimesInserted(item) = 0
           /\ (op["C"] \in RemoveTimedOps /\ ~everOw) =>
                IF pc["C"] = "idle" /\ TimedOk(res["C"])
                THEN out = (pre["C"].out + 1) % size
                ELSE out = pre["C"].out )
    /\ [][\A t \in Threads :
            (op[t] \in TimedOps /\ pc[t] # "idle" /\ pc'[t] # pc[t]) =>
                /\ (pc'[t] = "idle" /\ TimedOk(res'[t]))
                       <=> pc[t] \in {"ins_publish", "rem_publish"}
                /\ pc[t] \notin {"ins_evict", "ins_write", "ins_publish", "rem_publish"}
                       => UNCHANGED <<in, out, buf, inserted, removed>>
                /\ pc[t] = "ins_evict"
                       => pc'[t] = "ins_write" /\ UNCHANGED <<in, buf>>
                /\ pc[t] = "ins_write"
                       => pc'[t] = "ins_publish" /\ UNCHANGED <<in, out>>
                /\ pc[t] = "ins_publish"
                       => /\ UNCHANGED <<out, buf>>
                          /\ inserted' = Append(inserted, timed[t].item)
                /\ pc[t] = "rem_publish"
                       => /\ UNCHANGED <<in, buf>>
                          /\ Len(removed') = Len(removed) + 1]_vars

\* A timed insert was refused on the full buffer, slept, and stored its item
\* on the second attempt after the consumer had removed an element.
C39_Witness ==
    /\ size = 2 /\ ~everOw
    /\ pc["P"] = "idle" /\ op["P"] = "cb_insert_timeout" /\ res["P"] = "true"
    /\ timed["P"].attempts = <<CB_ERROR_BUFFER_FULL, CB_SUCCESS>>
    /\ Len(removed) >= 1

====
